---- MODULE Spec2Model ----
(***************************************************************************)
(* A model of the example servers and the Okta clients of the repository:  *)
(*   - the Kendra MCP server's tools (math_tool, example_tool),            *)
(*   - the main() entry points of the Kendra and Amazon Q MCP servers,     *)
(*   - OktaAuthClient / OktaOAuthClient: the token file, the clients'      *)
(*     in-memory tokens and the calls that reach the Okta endpoints,       *)
(*   - start_oauth_flow: the Flask routes and their sessions,              *)
(*   - the Amazon Q MCP server's tools with util.py and TVMClient,         *)
(*   - make_api_request and the OktaApiClient methods built on it,         *)
(*   - refresh_tokens step by step for two clients sharing tokens.json,    *)
(*   - salesforce_oauth_app: the FastAPI routes and their two dicts.       *)
(* Each part has its own specification (SpecMath, SpecKendra, SpecMain,    *)
(* SpecTokens, SpecWeb, SpecQ, SpecChat, SpecApi, SpecRace, SpecSf); the   *)
(* variables of the other parts stay at their initial values.              *)
(* Record constructors list their fields in the order of TLC's normal form *)
(* of a record, so that a value two workers share is never rearranged      *)
(* while one of them reads it.                                             *)
(***************************************************************************)
EXTENDS Integers, Sequences, FiniteSets, TLC

VARIABLES
    mathOp, mathA, mathB, mathOut,        \* math_tool: arguments and outcome of the call
    kEnv, kQuery, kClient, kOut, kCalls,  \* example_tool: environment, argument, mock client, outcome, calls of query
    mServer, mArgv, mPc, mLog,            \* main(): which server, its command line, its position, the messages logged
    mSettings, mRuns,                     \* main(): mcp.settings as assigned, the calls of mcp.run (keyword arguments)
    tFile,                                \* tokens.json: absent, unreadable, or the JSON object it holds
    tMem,                                 \* self.tokens of each client
    tNow,                                 \* time.time(), in seconds
    tIssued,                              \* how many token sets the Okta token endpoint has issued
    tLast                                 \* the last call of a client method: arguments, value returned, requests sent

VARIABLES
    wSession, wRand, wLast,               \* web flow: each browser's Flask session, random values drawn, the last response
    qEnv, qConvs, qLast,                  \* Amazon Q tools: os.environ, the conversations Q Business holds, the last tool call
    aLast,                                \* Okta management API: the last call and its outcome
    rProc, rLog                           \* refresh_tokens step by step: each client's position and locals, the events so far

VARIABLES
    wSent,                                \* web flow: the authorization requests /login has redirected browsers to
    sVerifiers, sTokens,                  \* Salesforce app: the module's pkce_verifiers and user_tokens
    sRand,                                \* Salesforce app: how many /login requests have drawn a state and a verifier
    sSent, sPosts,                        \* Salesforce app: the authorization requests and the token requests sent so far
    sLast                                 \* Salesforce app: the last request and its response

mathVars == <<mathOp, mathA, mathB, mathOut>>
kendraVars == <<kEnv, kQuery, kClient, kOut, kCalls>>
mainVars == <<mServer, mArgv, mPc, mLog, mSettings, mRuns>>
tokenVars == <<tFile, tMem, tNow, tIssued, tLast>>
webVars == <<wSession, wRand, wLast, wSent>>
qVars == <<qEnv, qConvs, qLast>>
apiVars == <<aLast>>
raceVars == <<rProc, rLog>>
sfVars == <<sVerifiers, sTokens, sRand, sSent, sPosts, sLast>>
vars == <<mathVars, kendraVars, mainVars, tokenVars, webVars, qVars, apiVars, raceVars, sfVars>>

\* ------------------------------------------------------------------------
\* Python values used by the tools
\* ------------------------------------------------------------------------

\* Python's None.
None == "None"

\* No call has been made yet.
NoCall == [kind |-> "none"]

RECURSIVE Gcd(_, _)
Gcd(m, n) == IF n = 0 THEN m ELSE Gcd(n, m % n)

Abs(n) == IF n < 0 THEN -n ELSE n

\* A Python number (int | float) as an exact fraction n/d in lowest terms, d > 0,
\* tagged with its type.  Within the model's range every fraction used is the
\* float Python computes or, for a quotient that is not dyadic, stands for the
\* one float nearest to it (distinct fractions of this size round to distinct
\* floats).
Num(isFloat, n, d) ==
    LET g == Gcd(Abs(n), Abs(d))
        s == IF d < 0 THEN -1 ELSE 1
    IN [n |-> s * (n \div g), d |-> s * (d \div g), f |-> isFloat]

PyInt(n) == [n |-> n, d |-> 1, f |-> FALSE]
PyFloat(n, d) == Num(TRUE, n, d)

\* Largest magnitude of a math_tool argument.
MaxNum == 3

\* The arguments tried: the ints -MaxNum..MaxNum and the floats k/2 of the same range.
Ints == {PyInt(n) : n \in -MaxNum..MaxNum}
Floats == {PyFloat(n, 2) : n \in (-2 * MaxNum)..(2 * MaxNum)}
Numbers == Ints \cup Floats

\* str() of a digit, of a natural number, of an int.
Digit(k) ==
    CASE k = 0 -> "0" [] k = 1 -> "1" [] k = 2 -> "2" [] k = 3 -> "3" [] k = 4 -> "4"
      [] k = 5 -> "5" [] k = 6 -> "6" [] k = 7 -> "7" [] k = 8 -> "8" [] k = 9 -> "9"

RECURSIVE NatStr(_)
NatStr(n) == IF n < 10 THEN Digit(n) ELSE NatStr(n \div 10) \o Digit(n % 10)

IntStr(n) == IF n < 0 THEN "-" \o NatStr(-n) ELSE NatStr(n)

\* str() of a number as an f-string prints it: an int in decimal, a float with
\* its fractional part ("0.0", "-1.5").  Only halves occur as float arguments.
PyStr(v) ==
    IF ~v.f THEN IntStr(v.n)
    ELSE IF v.d = 1 THEN IntStr(v.n) \o ".0"
    ELSE (IF v.n < 0 THEN "-" ELSE "") \o NatStr(Abs(v.n) \div 2) \o ".5"

Return(v) == [kind |-> "return", value |-> v]
Raise(e, m) == [kind |-> "raise", exc |-> e, msg |-> m]

\* a + b, a - b, a * b: a float as soon as one operand is a float.
PyAdd(a, b) == Num(a.f \/ b.f, a.n * b.d + b.n * a.d, a.d * b.d)
PySub(a, b) == Num(a.f \/ b.f, a.n * b.d - b.n * a.d, a.d * b.d)
PyMul(a, b) == Num(a.f \/ b.f, a.n * b.n, a.d * b.d)

\* a / b: true division, always a float; a zero divisor raises ZeroDivisionError.
PyTrueDiv(a, b) ==
    IF b.n = 0 THEN Raise("ZeroDivisionError", "division by zero")
    ELSE Return(Num(TRUE, a.n * b.d, a.d * b.n))

\* ------------------------------------------------------------------------
\* Kendra MCP server: math_tool
\* ------------------------------------------------------------------------

Operations == {"add", "subtract", "multiply", "divide", "power", ""}

\* A divide branch that lets the ZeroDivisionError through.
DivideUncaught(a, b) == PyTrueDiv(a, b)

\* A divide branch that floors the quotient (a // b).
DivideFloor(a, b) ==
    IF b.n = 0 THEN Raise("ValueError", "The denominator " \o PyStr(b) \o " cannot be zero.")
    ELSE Return(Num(TRUE, ((a.n * b.d) \div (a.d * b.n)), 1))

\* case 'divide': try: return a / b; except ZeroDivisionError: raise ValueError(...)
Divide(a, b) ==
    LET r == PyTrueDiv(a, b)
    IN IF r.kind = "raise" /\ r.exc = "ZeroDivisionError"
       THEN Raise("ValueError", "The denominator " \o PyStr(b) \o " cannot be zero.")
       ELSE r

\* The default branch of a match that falls through and returns None.
InvalidOperationNone(operation) == Return(None)

\* case _: raise ValueError(f'Invalid operation: {operation} (must be ...)')
InvalidOperation(operation) ==
    Raise("ValueError",
          "Invalid operation: " \o operation \o " (must be one of: add, subtract, multiply, divide)")

math_tool(operation, a, b) ==
    CASE operation = "add" -> Return(PyAdd(a, b))
      [] operation = "subtract" -> Return(PySub(a, b))
      [] operation = "multiply" -> Return(PyMul(a, b))
      [] operation = "divide" -> Divide(a, b)
      [] OTHER -> InvalidOperation(operation)

\* One call of the tool with the arguments of the state.
MathCall ==
    /\ mathOut = NoCall
    /\ mathOut' = math_tool(mathOp, mathA, mathB)
    /\ UNCHANGED <<mathOp, mathA, mathB, kendraVars, mainVars, tokenVars, webVars, qVars, apiVars, raceVars, sfVars>>

MathNext == MathCall

\* ------------------------------------------------------------------------
\* Kendra MCP server: example_tool
\* ------------------------------------------------------------------------

\* dict.get(k, default)
Get(d, k, default) == IF k \in DOMAIN d THEN d[k] ELSE default

\* The dicts {} and {k: v} for v in S.
Opt(k, S) == {<<>>} \cup {k :> v : v \in S}

\* Longest ResultItems list of a mocked response.
MaxItems == 2

\* The ResultItems tried at position i of a response: every combination of
\* DocumentExcerpt (absent, without Text, with Text) and AdditionalAttributes
\* (absent, present), with the other fields all present, all absent, or present
\* without their inner key.
KendraItems(i) ==
    LET id == "result-" \o NatStr(i)
        rest == { ("Id" :> id) @@ ("Type" :> "DOCUMENT")
                    @@ ("DocumentTitle" :> ("Text" :> ("Test Document " \o NatStr(i))))
                    @@ ("DocumentURI" :> ("https://example.com/doc" \o NatStr(i)))
                    @@ ("ScoreAttributes" :> ("ScoreConfidence" :> "HIGH")),
                  ("Type" :> "ANSWER") @@ ("DocumentTitle" :> <<>>) @@ ("ScoreAttributes" :> <<>>),
                  ("Id" :> id) }
    IN { r @@ e @@ a :
            r \in rest,
            e \in Opt("DocumentExcerpt", {<<>>, "Text" :> ("This is an excerpt from document " \o NatStr(i))}),
            a \in Opt("AdditionalAttributes", {<<"AnswerText">>}) }

RECURSIVE KendraItemLists(_)
KendraItemLists(n) ==
    IF n = 0 THEN {<<>>}
    ELSE LET shorter == KendraItemLists(n - 1)
         IN shorter \cup {Append(l, it) : l \in {s \in shorter : Len(s) = n - 1}, it \in KendraItems(n)}

\* The responses a mocked kendra_client.query returns.
KendraResponses ==
    { t @@ r : t \in Opt("TotalNumberOfResults", {2}),
               r \in {<<>>} \cup {"ResultItems" :> l : l \in KendraItemLists(MaxItems)} }

\* The mocked client: boto3 hands it out or fails, and its query raises or returns.
KendraClients ==
    [create : {Return("client")}, query : {Raise("Exception", "Kendra service error")}]
    \cup [create : {Return("client")}, query : {Return(r) : r \in KendraResponses}]
    \cup [create : {Raise("ProfileNotFound", "The config profile (dev) could not be found")},
          query : {Raise("Exception", "Kendra service error")}]

\* os.getenv('KENDRA_INDEX_ID'): unset, empty, or the configured id.
KendraIndexIds == {None, "", "mock-index-id"}

KendraQueries == {"test query", "other query"}

\* A result entry that always carries an excerpt.
ResultItemAlwaysExcerpt(item) ==
    ("id" :> Get(item, "Id", None))
    @@ ("type" :> Get(item, "Type", None))
    @@ ("document_title" :> Get(Get(item, "DocumentTitle", <<>>), "Text", ""))
    @@ ("document_uri" :> Get(item, "DocumentURI", ""))
    @@ ("score" :> Get(Get(item, "ScoreAttributes", <<>>), "ScoreConfidence", ""))
    @@ ("excerpt" :> Get(Get(item, "DocumentExcerpt", <<>>), "Text", ""))
    @@ (IF "AdditionalAttributes" \in DOMAIN item
        THEN "additional_attributes" :> item["AdditionalAttributes"] ELSE <<>>)

\* The loop body: one result entry for one ResultItem.
ResultItem(item) ==
    ("id" :> Get(item, "Id", None))
    @@ ("type" :> Get(item, "Type", None))
    @@ ("document_title" :> Get(Get(item, "DocumentTitle", <<>>), "Text", ""))
    @@ ("document_uri" :> Get(item, "DocumentURI", ""))
    @@ ("score" :> Get(Get(item, "ScoreAttributes", <<>>), "ScoreConfidence", ""))
    @@ (IF "DocumentExcerpt" \in DOMAIN item /\ "Text" \in DOMAIN item["DocumentExcerpt"]
        THEN "excerpt" :> item["DocumentExcerpt"]["Text"] ELSE <<>>)
    @@ (IF "AdditionalAttributes" \in DOMAIN item
        THEN "additional_attributes" :> item["AdditionalAttributes"] ELSE <<>>)

\* The results dict built from a response.
KendraResults(query, response) ==
    LET items == Get(response, "ResultItems", <<>>)
    IN ("query" :> query)
       @@ ("total_results_count" :> Get(response, "TotalNumberOfResults", 0))
       @@ ("results" :> [i \in 1..Len(items) |-> ResultItem(items[i])])

\* An except branch that leaves the index id out of the error dict.
KendraErrorNoIndex(e, query, kendra_index_id) ==
    Return(("error" :> e.msg) @@ ("query" :> query))

\* except Exception as e: return {'error': str(e), 'query': ..., 'index_id': ...}
KendraError(e, query, kendra_index_id) ==
    Return(("error" :> e.msg) @@ ("query" :> query) @@ ("index_id" :> kendra_index_id))

\* example_tool(query) against the environment and client of the state: the value
\* returned and the calls made of kendra_client.query.
example_tool(query, env, client) ==
    IF client.create.kind = "raise"
    THEN [out |-> KendraError(client.create, query, env), calls |-> <<>>]
    ELSE IF env = None \/ env = ""
    THEN [out |-> KendraError(Raise("ValueError", "KENDRA_INDEX_ID environment variable is not set."),
                              query, env),
          calls |-> <<>>]
    ELSE LET call == [IndexId |-> env, QueryText |-> query]
         IN IF client.query.kind = "raise"
            THEN [out |-> KendraError(client.query, query, env), calls |-> <<call>>]
            ELSE [out |-> Return(KendraResults(query, client.query.value)), calls |-> <<call>>]

ExampleToolCall ==
    /\ kOut = NoCall
    /\ LET r == example_tool(kQuery, kEnv, kClient)
       IN /\ kOut' = r.out
          /\ kCalls' = r.calls
    /\ UNCHANGED <<kEnv, kQuery, kClient, mathVars, mainVars, tokenVars, webVars, qVars, apiVars, raceVars, sfVars>>

KendraNext == ExampleToolCall

\* ------------------------------------------------------------------------
\* main() of the Amazon Q MCP server and of the Kendra MCP server
\* ------------------------------------------------------------------------

Servers == {"amazon-q", "kendra"}

\* --port of the Kendra server when the command line gives none.
DefaultPort == 8888

\* The command lines tried: --sse given or not, --port given or not.
Argvs == [sse : BOOLEAN] \cup [sse : BOOLEAN, port : {8080, 9000}]

\* sys.argv = [<program>]
DefaultArgv == [sse |-> FALSE]

\* parser.parse_args() of the Kendra server.
ParseArgs(argv) == [sse |-> argv.sse, port |-> Get(argv, "port", DefaultPort)]

\* The logger calls main() makes before it runs the server, in order.
LogLevels == <<"trace", "debug", "info", "success", "warning", "error", "critical">>

\* A main() of the Amazon Q server that picks the transport as the Kendra one does.
QMainRunSse(argv) ==
    [settings |-> <<>>, kwargs |-> "transport" :> "sse"]

\* Amazon Q server: mcp.run()
QMainRun(argv) ==
    [settings |-> <<>>, kwargs |-> <<>>]

\* Kendra server: if args.sse: mcp.settings.port = args.port; mcp.run(transport='sse')
\* else: mcp.run()
KendraMainRun(argv) ==
    LET args == ParseArgs(argv)
    IN IF args.sse
       THEN [settings |-> "port" :> args.port, kwargs |-> "transport" :> "sse"]
       ELSE [settings |-> <<>>, kwargs |-> <<>>]

\* The next logger call of main().
MainLog ==
    /\ mPc \in {"start", "logging"}
    /\ Len(mLog) < Len(LogLevels)
    /\ mLog' = Append(mLog, LogLevels[Len(mLog) + 1])
    /\ mPc' = "logging"
    /\ UNCHANGED <<mServer, mArgv, mSettings, mRuns, mathVars, kendraVars, tokenVars, webVars, qVars, apiVars, raceVars, sfVars>>

\* main() reaches mcp.run, which serves until the server is stopped.
MainRun ==
    /\ mPc = "logging"
    /\ Len(mLog) = Len(LogLevels)
    /\ LET r == IF mServer = "amazon-q" THEN QMainRun(mArgv) ELSE KendraMainRun(mArgv)
       IN /\ mSettings' = r.settings @@ mSettings
          /\ mRuns' = Append(mRuns, r.kwargs)
    /\ mPc' = "serving"
    /\ UNCHANGED <<mServer, mArgv, mLog, mathVars, kendraVars, tokenVars, webVars, qVars, apiVars, raceVars, sfVars>>

\* mcp.run returns (the mocked run returns at once) and main() ends.
MainReturn ==
    /\ mPc = "serving"
    /\ mPc' = "returned"
    /\ UNCHANGED <<mServer, mArgv, mLog, mSettings, mRuns, mathVars, kendraVars, tokenVars, webVars, qVars, apiVars, raceVars, sfVars>>

MainNext == MainLog \/ MainRun \/ MainReturn

\* ------------------------------------------------------------------------
\* OktaAuthClient / OktaOAuthClient: token storage and the Okta endpoints
\* ------------------------------------------------------------------------

\* The clients (processes) that share TOKEN_STORAGE_FILE.
Clients == {"c1", "c2"}

\* The buffer is_token_valid subtracts from expires_at.
ExpiryBuffer == 60

\* The token endpoint issues at most this many token sets.
MaxIssued == 2

\* The clock stops here.
MaxTime == 60

\* expires_in of a token response, when it has one.
ExpiresIns == {60, 120}

\* The clock advances by this much between two calls.
Delays == {60}

FileAbsent == [st |-> "absent", data |-> <<>>]
FileCorrupt == [st |-> "corrupt", data |-> <<>>]
FileOf(tokens) == [st |-> "ok", data |-> tokens]

\* What writing the file can do: succeed, fail at open (the file is left as it
\* was), or fail while json.dump writes (the file is left truncated).
SaveOutcomes == {"ok", "open_fail", "write_fail"}

\* os.remove succeeds or raises.
RemoveOutcomes == {"ok", "fail"}

\* requests raises a RequestException (no connection, or raise_for_status on 4xx/5xx).
HttpError == Raise("RequestException", "401 Client Error: Unauthorized")

\* The JSON bodies the token endpoint answers with when it issues token set k:
\* an access token, and optionally a refresh token, an id token and expires_in.
TokenResponses(k) ==
    { ("access_token" :> ("at" \o NatStr(k))) @@ r @@ i @@ x :
        r \in Opt("refresh_token", {"rt" \o NatStr(k)}),
        i \in Opt("id_token", {"id" \o NatStr(k)}),
        x \in Opt("expires_in", ExpiresIns) }

\* What a POST to the token endpoint can do.
TokenOutcomes(issued) ==
    {HttpError} \cup (IF issued < MaxIssued THEN {Return(r) : r \in TokenResponses(issued + 1)} ELSE {})

\* What a request to the revoke, introspect or userinfo endpoint can do.
RevokeOutcomes == {HttpError, Return(<<>>)}
IntrospectOutcomes == {HttpError, Return("active" :> TRUE)}
UserinfoOutcomes == {HttpError, Return("sub" :> "00u1")}

TokenTypes == {"access_token", "id_token"}

\* A client that is not inside refresh_tokens.
RefreshIdle == [pc |-> "idle"]

\* load_tokens: self.tokens becomes the file's content if the file exists and
\* parses; otherwise self.tokens is left as it is and {} is returned.
load_tokens(mem, file) ==
    IF file.st = "ok" THEN [mem |-> file.data, ret |-> file.data]
    ELSE [mem |-> mem, ret |-> <<>>]

\* save_tokens: self.tokens = tokens, then the file is written.
save_tokens(tokens, file, io) ==
    [mem |-> tokens,
     file |-> CASE io = "ok" -> FileOf(tokens)
                [] io = "open_fail" -> file
                [] OTHER -> FileCorrupt]

\* if 'expires_at' in self.tokens: if current_time >= (expires_at - 60): return False
IsExpired(tokens, now) ==
    "expires_at" \in DOMAIN tokens /\ now >= tokens["expires_at"] - ExpiryBuffer

\* is_token_valid(token_type)
is_token_valid(mem, file, now, token_type) ==
    LET m == load_tokens(mem, file).mem
    IN [mem |-> m,
        ret |-> IF m = <<>> \/ token_type \notin DOMAIN m THEN FALSE
                ELSE ~IsExpired(m, now)]

\* tokens['expires_at'] = time.time() + tokens['expires_in'], if the response has expires_in
WithExpiresAt(tokens, now) ==
    IF "expires_in" \in DOMAIN tokens
    THEN ("expires_at" :> (now + tokens["expires_in"])) @@ tokens
    ELSE tokens

\* One HTTP request of a call: the endpoint, and whether it succeeded.
Req(endpoint, http) == [to |-> endpoint, ok |-> http.kind = "return"]

\* The result of a client method: self.tokens and the file after it, the value
\* returned, the requests sent, the token sets issued, the calls of refresh_tokens
\* made, and what get_token saw when it decided whether to refresh.
Result(mem, file, ret, reqs, issued, refreshes) ==
    [issued |-> issued, mem |-> mem, file |-> file, ret |-> ret, reqs |-> reqs,
     refreshes |-> refreshes, seen |-> <<>>]

\* exchange_code_for_tokens: one POST to the token endpoint; the tokens are saved
\* and returned, or {'error': str(e)} is returned.
exchange_code_for_tokens(mem, file, now, issued, http, io) ==
    IF http.kind = "raise"
    THEN Result(mem, file, "error" :> http.msg, <<Req("token", http)>>, issued, 0)
    ELSE LET tokens == WithExpiresAt(http.value, now)
             saved == save_tokens(tokens, file, io)
         IN Result(saved.mem, saved.file, tokens, <<Req("token", http)>>, issued + 1, 0)

\* A refresh_tokens that sends the request a second time when it fails.
refresh_tokens_retry(mem, file, now, issued, http, io) ==
    LET m == load_tokens(mem, file).mem
    IN IF "refresh_token" \notin DOMAIN m
       THEN Result(m, file, FALSE, <<>>, issued, 1)
       ELSE IF http.kind = "raise"
       THEN Result(m, file, FALSE, <<Req("token", http), Req("token", http)>>, issued, 1)
       ELSE LET saved == save_tokens(WithExpiresAt(http.value, now), file, io)
            IN Result(saved.mem, saved.file, TRUE, <<Req("token", http)>>, issued + 1, 1)

\* A refresh_tokens that discards the stored tokens when the request fails.
refresh_tokens_discard(mem, file, now, issued, http, io) ==
    LET m == load_tokens(mem, file).mem
    IN IF "refresh_token" \notin DOMAIN m
       THEN Result(m, file, FALSE, <<>>, issued, 1)
       ELSE IF http.kind = "raise"
       THEN Result(<<>>, FileOf(<<>>), FALSE, <<Req("token", http)>>, issued, 1)
       ELSE LET stamped == WithExpiresAt(http.value, now)
                new_tokens == IF "refresh_token" \notin DOMAIN stamped
                              THEN ("refresh_token" :> m["refresh_token"]) @@ stamped
                              ELSE stamped
                saved == save_tokens(new_tokens, file, io)
            IN Result(saved.mem, saved.file, TRUE, <<Req("token", http)>>, issued + 1, 1)

\* OktaOAuthClient.refresh_tokens
refresh_tokens(mem, file, now, issued, http, io) ==
    LET m == load_tokens(mem, file).mem
    IN IF "refresh_token" \notin DOMAIN m
       THEN Result(m, file, FALSE, <<>>, issued, 1)
       ELSE IF http.kind = "raise"
       THEN Result(m, file, FALSE, <<Req("token", http)>>, issued, 1)
       ELSE LET stamped == WithExpiresAt(http.value, now)
                new_tokens == IF "refresh_token" \notin DOMAIN stamped
                              THEN ("refresh_token" :> m["refresh_token"]) @@ stamped
                              ELSE stamped
                saved == save_tokens(new_tokens, file, io)
            IN Result(saved.mem, saved.file, TRUE, <<Req("token", http)>>, issued + 1, 1)

\* get_token(token_type): refresh if the token is not valid and a refresh token is
\* in self.tokens, then load the tokens and return self.tokens.get(token_type).
get_token(mem, file, now, issued, token_type, http, io) ==
    LET v == is_token_valid(mem, file, now, token_type)
        r == IF ~v.ret /\ "refresh_token" \in DOMAIN v.mem
             THEN refresh_tokens(v.mem, file, now, issued, http, io)
             ELSE Result(v.mem, file, FALSE, <<>>, issued, 0)
        m == load_tokens(r.mem, r.file).mem
    IN [Result(m, r.file, Get(m, token_type, None), r.reqs, r.issued, r.refreshes)
            EXCEPT !.seen = [valid |-> v.ret, held |-> "refresh_token" \in DOMAIN v.mem]]

\* OktaAuthClient.revoke_tokens: remove the file and clear self.tokens.
base_revoke_tokens(mem, file, rm) ==
    IF file.st # "absent" /\ rm = "ok"
    THEN [mem |-> <<>>, file |-> FileAbsent, ret |-> TRUE]
    ELSE [mem |-> mem, file |-> file, ret |-> FALSE]

\* OktaOAuthClient.revoke_tokens
revoke_tokens(mem, file, issued, http, rm) ==
    LET m == load_tokens(mem, file).mem
    IN IF m = <<>> THEN Result(m, file, TRUE, <<>>, issued, 0)
       ELSE IF "access_token" \notin DOMAIN m /\ "refresh_token" \notin DOMAIN m
       THEN Result(m, file, FALSE, <<>>, issued, 0)
       ELSE IF http.kind = "raise"
       THEN Result(m, file, FALSE, <<Req("revoke", http)>>, issued, 0)
       ELSE LET cleared == base_revoke_tokens(m, file, rm)
            IN Result(cleared.mem, cleared.file, TRUE, <<Req("revoke", http)>>, issued, 0)

\* OktaOAuthClient.introspect_token
introspect_token(mem, file, issued, http) ==
    IF http.kind = "raise"
    THEN Result(mem, file, ("active" :> FALSE) @@ ("error" :> http.msg), <<Req("introspect", http)>>, issued, 0)
    ELSE Result(mem, file, http.value, <<Req("introspect", http)>>, issued, 0)

\* get_userinfo: get_token('access_token'), then one GET to the userinfo endpoint.
get_userinfo(mem, file, now, issued, http, io, info) ==
    LET g == get_token(mem, file, now, issued, "access_token", http, io)
    IN IF g.ret = None
       THEN Result(g.mem, g.file, "error" :> "No access token available", g.reqs, g.issued, g.refreshes)
       ELSE IF info.kind = "raise"
       THEN Result(g.mem, g.file, "error" :> info.msg, Append(g.reqs, Req("userinfo", info)), g.issued, g.refreshes)
       ELSE Result(g.mem, g.file, info.value, Append(g.reqs, Req("userinfo", info)), g.issued, g.refreshes)

\* The state after client c's call of op(arg) with result r; the call record
\* keeps the token file and self.tokens as they were when the call began.
Called(c, op, arg, r) ==
    /\ tLast = NoCall
    /\ tMem' = [tMem EXCEPT ![c] = r.mem]
    /\ tFile' = r.file
    /\ tIssued' = r.issued
    /\ tLast' = [ret |-> r.ret, reqs |-> r.reqs, refreshes |-> r.refreshes, seen |-> r.seen, c |-> c,
                 op |-> op, arg |-> arg,
                 before |-> [mem |-> tMem[c], file |-> tFile]]
    /\ UNCHANGED <<tNow, mathVars, kendraVars, mainVars, webVars, qVars, apiVars, raceVars, sfVars>>

LoadTokens(c) ==
    LET l == load_tokens(tMem[c], tFile)
    IN Called(c, "load_tokens", None, Result(l.mem, tFile, l.ret, <<>>, tIssued, 0))

IsTokenValid(c) ==
    \E t \in TokenTypes :
        LET v == is_token_valid(tMem[c], tFile, tNow, t)
        IN Called(c, "is_token_valid", t, Result(v.mem, tFile, v.ret, <<>>, tIssued, 0))

GetToken(c) ==
    \E t \in TokenTypes, http \in TokenOutcomes(tIssued), io \in SaveOutcomes :
        Called(c, "get_token", t, get_token(tMem[c], tFile, tNow, tIssued, t, http, io))

ExchangeCode(c) ==
    \E http \in TokenOutcomes(tIssued), io \in SaveOutcomes :
        Called(c, "exchange_code_for_tokens", None,
               exchange_code_for_tokens(tMem[c], tFile, tNow, tIssued, http, io))

RefreshTokens(c) ==
    \E http \in TokenOutcomes(tIssued), io \in SaveOutcomes :
        Called(c, "refresh_tokens", None, refresh_tokens(tMem[c], tFile, tNow, tIssued, http, io))

RevokeTokens(c) ==
    \E http \in RevokeOutcomes, rm \in RemoveOutcomes :
        Called(c, "revoke_tokens", None, revoke_tokens(tMem[c], tFile, tIssued, http, rm))

IntrospectToken(c) ==
    \E http \in IntrospectOutcomes :
        Called(c, "introspect_token", None, introspect_token(tMem[c], tFile, tIssued, http))

GetUserinfo(c) ==
    \E http \in TokenOutcomes(tIssued), io \in SaveOutcomes, info \in UserinfoOutcomes :
        Called(c, "get_userinfo", None,
               get_userinfo(tMem[c], tFile, tNow, tIssued, http, io, info))

\* Time passes between two calls.
Tick ==
    \E d \in Delays :
        /\ tLast = NoCall
        /\ tNow + d <= MaxTime
        /\ tNow' = tNow + d
        /\ UNCHANGED <<tFile, tMem, tIssued, tLast, mathVars, kendraVars, mainVars, webVars, qVars, apiVars, raceVars, sfVars>>

\* The caller has used the value returned and goes on.
CallDone ==
    /\ tLast # NoCall
    /\ tLast' = NoCall
    /\ UNCHANGED <<tFile, tMem, tNow, tIssued, mathVars, kendraVars, mainVars, webVars, qVars, apiVars, raceVars, sfVars>>

TokenNext ==
    \/ Tick
    \/ CallDone
    \/ \E c \in Clients :
        \/ LoadTokens(c)
        \/ IsTokenValid(c)
        \/ GetToken(c)
        \/ ExchangeCode(c)
        \/ RefreshTokens(c)
        \/ RevokeTokens(c)
        \/ IntrospectToken(c)
        \/ GetUserinfo(c)

\* ------------------------------------------------------------------------
\* start_oauth_flow: the Flask routes of the Okta OAuth example
\* ------------------------------------------------------------------------

\* The browsers that talk to the app; each has its own Flask session.
Sessions == {"b1", "b2"}

\* oauth_client = OktaOAuthClient(): the one client all routes share.
WebClient == "c1"

\* /login is served at most this many times.
MaxLogins == 2

\* base64url(sha256(verifier)) without padding.
S256(code_verifier) == "S256(" \o code_verifier \o ")"

\* generate_pkce_pair, for the k-th random verifier drawn.
generate_pkce_pair(k) ==
    LET code_verifier == "verifier" \o NatStr(k)
    IN [code_verifier |-> code_verifier, code_challenge |-> S256(code_verifier)]

\* get_authorization_url(state, code_challenge): the query parameters that vary.
get_authorization_url(state, code_challenge) ==
    ("state" :> state)
    @@ (IF code_challenge # None
        THEN ("code_challenge" :> code_challenge) @@ ("code_challenge_method" :> "S256")
        ELSE <<>>)

\* The query strings a callback request can carry: request.args.
StateParams == {None, "forged"} \cup {"state" \o NatStr(k) : k \in 1..MaxLogins}
Codes == {None, "", "code1"}
CallbackArgs ==
    { (IF st # None THEN "state" :> st ELSE <<>>) @@ (IF code # None THEN "code" :> code ELSE <<>>) :
        st \in StateParams, code \in Codes }

\* The response of a route, with the calls of exchange_code_for_tokens it made.
Response(status, body, exchanged) == [status |-> status, body |-> body, exchanged |-> exchanged]

\* login(): a new verifier and a new state are put into the session, and the
\* browser is redirected to the authorization URL.
login(session, k) ==
    LET pkce_pair == generate_pkce_pair(k)
        state == "state" \o NatStr(k)
    IN [response |-> Response(302, get_authorization_url(state, pkce_pair.code_challenge), <<>>),
        session |-> ("code_verifier" :> pkce_pair.code_verifier) @@ ("state" :> state) @@ session]

\* callback(): compare the state, require a code, exchange it.
callback(session, args, mem, file, now, issued, http, io) ==
    IF Get(args, "state", None) # Get(session, "state", None)
    THEN [response |-> Response(400, "State mismatch. Possible CSRF attack.", <<>>),
          issued |-> issued, mem |-> mem, file |-> file]
    ELSE IF Get(args, "code", None) \in {None, ""}
    THEN [response |-> Response(400, "No authorization code received.", <<>>),
          issued |-> issued, mem |-> mem, file |-> file]
    ELSE LET code_verifier == Get(session, "code_verifier", None)
             x == exchange_code_for_tokens(mem, file, now, issued, http, io)
             call == [code_verifier |-> code_verifier, code |-> args["code"]]
         IN [response |-> IF "error" \in DOMAIN x.ret
                          THEN Response(400, "Error exchanging code for tokens: " \o x.ret["error"], <<call>>)
                          ELSE Response(302, "/profile", <<call>>),
             issued |-> x.issued, mem |-> x.mem, file |-> x.file]

\* refresh(): refresh_tokens, then /profile or an error page.
refresh(mem, file, now, issued, http, io) ==
    LET r == refresh_tokens(mem, file, now, issued, http, io)
    IN [response |-> IF r.ret THEN Response(302, "/profile", <<>>)
                     ELSE Response(400, "Error refreshing tokens. You may need to login again.", <<>>),
        issued |-> r.issued, mem |-> r.mem, file |-> r.file]

\* revoke(): revoke_tokens, then the logged-out page whatever it returned.
revoke(mem, file, issued, http, rm) ==
    LET r == revoke_tokens(mem, file, issued, http, rm)
    IN [response |-> Response(200, "Logged Out", <<>>),
        issued |-> r.issued, mem |-> r.mem, file |-> r.file]

\* The state after browser b's request of a route.
Served(b, route, args, session, r) ==
    /\ wLast = NoCall
    /\ wSession' = [wSession EXCEPT ![b] = session]
    /\ wLast' = [b |-> b, response |-> r.response, args |-> args, session |-> wSession[b],
                 route |-> route]
    /\ tMem' = [tMem EXCEPT ![WebClient] = r.mem]
    /\ tFile' = r.file
    /\ tIssued' = r.issued
    /\ UNCHANGED <<tNow, tLast, mathVars, kendraVars, mainVars, qVars, apiVars, raceVars, sfVars>>

WebLogin(b) ==
    /\ wRand < MaxLogins
    /\ wRand' = wRand + 1
    /\ LET l == login(wSession[b], wRand + 1)
       IN /\ wSent' = wSent \cup {l.response.body}
          /\ Served(b, "login", <<>>, l.session,
                    [response |-> l.response, issued |-> tIssued, mem |-> tMem[WebClient], file |-> tFile])

WebCallback(b) ==
    \E args \in CallbackArgs, http \in TokenOutcomes(tIssued), io \in SaveOutcomes :
        /\ UNCHANGED <<wRand, wSent>>
        /\ Served(b, "callback", args, wSession[b],
                  callback(wSession[b], args, tMem[WebClient], tFile, tNow, tIssued, http, io))

WebRefresh(b) ==
    \E http \in TokenOutcomes(tIssued), io \in SaveOutcomes :
        /\ UNCHANGED <<wRand, wSent>>
        /\ Served(b, "refresh", <<>>, wSession[b],
                  refresh(tMem[WebClient], tFile, tNow, tIssued, http, io))

WebRevoke(b) ==
    \E http \in RevokeOutcomes, rm \in RemoveOutcomes :
        /\ UNCHANGED <<wRand, wSent>>
        /\ Served(b, "revoke", <<>>, wSession[b],
                  revoke(tMem[WebClient], tFile, tIssued, http, rm))

\* The browser has received the response.
WebDone ==
    /\ wLast # NoCall
    /\ wLast' = NoCall
    /\ UNCHANGED <<wSession, wRand, wSent, tokenVars, mathVars, kendraVars, mainVars, qVars, apiVars, raceVars, sfVars>>

WebNext ==
    \/ WebDone
    \/ \E b \in Sessions :
        \/ WebLogin(b)
        \/ WebCallback(b)
        \/ WebRefresh(b)
        \/ WebRevoke(b)

\* ------------------------------------------------------------------------
\* Amazon Q MCP server: the three tools, util.py and TVMClient
\* ------------------------------------------------------------------------

\* A value Python treats as true in `if region:` / `region or ...`.
Truthy(v) == v \notin {None, ""}

\* A restriction that never lets maxResults through.
OnlyWithoutMaxResults(d, K) == [k \in ((DOMAIN d) \cap K) \ {"maxResults"} |-> d[k]]

\* A restriction that never lets conversationId through.
OnlyWithoutConversation(d, K) == [k \in ((DOMAIN d) \cap K) \ {"conversationId"} |-> d[k]]

\* The optional request parameters: the dict d restricted to the keys in K
\* (`if x is not None: request_params['x'] = x`).
Only(d, K) == [k \in (DOMAIN d) \cap K |-> d[k]]

\* All lists over S of length at most n.
Lists(S, n) == UNION {[1..k -> S] : k \in 0..n}

\* os.environ, as far as util.py and server.py read it.
QEnvs == { r @@ p : r \in Opt("AWS_REGION", {"ap-south-1"}), p \in Opt("AWS_PROFILE", {"dev"}) }

\* boto3 creates the client, or raises (e.g. ProfileNotFound).
BotoOutcomes == {Return("client"), Raise("ProfileNotFound", "The config profile (dev) could not be found")}

\* get_qbusiness_client(region)
get_qbusiness_client(region, env, boto) ==
    LET AWS_PROFILE == Get(env, "AWS_PROFILE", None)
        AWS_REGION == IF Truthy(region) THEN region ELSE Get(env, "AWS_REGION", "us-east-1")
    IN IF boto.kind = "raise" THEN boto
       ELSE Return([service |-> "qbusiness", region_name |-> AWS_REGION,
                    profile_name |-> IF Truthy(AWS_PROFILE) THEN AWS_PROFILE ELSE None,
                    credentials |-> <<>>])

\* TVMClient.get_sigv4_credentials: the POST to the issuer raises (with the blank
\* issuer of util.py the URL is 'token', which requests rejects), or STS raises,
\* or the role's credentials are returned.
TvmOutcomes ==
    {Raise("MissingSchema", "Invalid URL 'token': No scheme supplied"),
     Raise("ClientError", "AccessDenied when calling AssumeRoleWithWebIdentity"),
     Return(("AccessKeyId" :> "AKIA1") @@ ("SecretAccessKey" :> "secret1") @@ ("SessionToken" :> "session1"))}

get_sigv4_credentials(tvm) ==
    IF tvm.kind = "raise" THEN tvm
    ELSE Return(("aws_access_key_id" :> tvm.value["AccessKeyId"])
                @@ ("aws_secret_access_key" :> tvm.value["SecretAccessKey"])
                @@ ("aws_session_token" :> tvm.value["SessionToken"]))

\* get_identity_aware_qbusiness_client(region)
get_identity_aware_qbusiness_client(region, tvm) ==
    LET credentials_q == get_sigv4_credentials(tvm)
    IN IF credentials_q.kind = "raise" THEN credentials_q
       ELSE Return([service |-> "qbusiness", region_name |-> "us-east-1",
                    profile_name |-> None, credentials |-> credentials_q.value])

\* The region argument as the tools pass it on: `if region: f(region) else: f()`.
PassRegion(args) == IF Truthy(Get(args, "region", None)) THEN args["region"] ELSE None

\* One call of a method of the Q Business client.
ApiCall(client, api, kwargs) == [client |-> client, kwargs |-> kwargs, api |-> api]

\* What a tool did: the value returned, the clients created, the API calls made.
ToolResult(out, clients, calls) == [out |-> out, calls |-> calls, clients |-> clients]

\* Longest 'applications' list of a ListApplications response.
MaxApps == 2

\* The applications of the account.
QApps ==
    { ("applicationId" :> "app-1") @@ ("name" :> "One") @@ ("description" :> "first"),
      ("applicationId" :> "app-2") }

\* What list_applications can do.
ListApplicationsOutcomes ==
    {Raise("AccessDeniedException", "not authorized to perform qbusiness:ListApplications")}
    \cup {Return(a @@ n) : a \in Opt("applications", Lists(QApps, MaxApps)), n \in Opt("nextToken", {"next-1"})}

\* What list_retrievers can do, for each application.
ListRetrieversOutcomes ==
    {Raise("ThrottlingException", "Rate exceeded"),
     Return(<<>>),
     Return("retrievers" :> <<("retrieverId" :> "ret-1") @@ ("type" :> "NATIVE_INDEX")>>)}
RetrieverBehaviours == [{"app-1", "app-2"} -> ListRetrieversOutcomes]

\* The arguments of QBusinessListApplicationsTool (a key is absent when the
\* argument is omitted or None).
ListArgs ==
    { r @@ m @@ n : r \in Opt("region", {"", "eu-west-1"}), m \in Opt("maxResults", {0}),
                    n \in Opt("nextToken", {"tok"}) }

\* An entry that hides the failure of list_retrievers.
RetrieversEntryHidden(rr, retrievers) == "retrievers" :> retrievers

\* The try/except around list_retrievers: the retrievers, or the error's text.
RetrieversEntry(rr, retrievers) ==
    IF rr.kind = "raise" THEN "retrievers_error" :> rr.msg ELSE "retrievers" :> retrievers

\* qbusiness_list_applications_tool
qbusiness_list_applications_tool(args, env, boto, svc, retr) ==
    LET region == IF Truthy(Get(args, "region", None)) THEN args["region"]
                  ELSE Get(env, "AWS_REGION", "us-east-1")
        failed(e) == ("error" :> e.msg) @@ ("region" :> region)
        created == get_qbusiness_client(PassRegion(args), env, boto)
    IN IF created.kind = "raise" THEN ToolResult(failed(created), <<>>, <<>>)
       ELSE LET qbusiness_client == created.value
                request_params == Only(args, {"maxResults", "nextToken"})
                first == ApiCall(qbusiness_client, "list_applications", request_params)
            IN IF svc.kind = "raise"
               THEN ToolResult(failed(svc), <<qbusiness_client>>, <<first>>)
               ELSE LET response == svc.value
                        apps == Get(response, "applications", <<>>)
                        retriever_info(r) ==
                            ("retrieverId" :> Get(r, "retrieverId", None))
                            @@ ("name" :> Get(r, "name", None)) @@ ("type" :> Get(r, "type", None))
                        app_info(app) ==
                            LET rr == retr[app["applicationId"]]
                                rs == IF rr.kind = "raise" THEN <<>> ELSE Get(rr.value, "retrievers", <<>>)
                            IN ("applicationId" :> Get(app, "applicationId", None))
                               @@ ("name" :> Get(app, "name", None))
                               @@ ("description" :> Get(app, "description", None))
                               @@ RetrieversEntry(rr, [j \in 1..Len(rs) |-> retriever_info(rs[j])])
                        applications == [i \in 1..Len(apps) |-> app_info(apps[i])]
                    IN ToolResult(("region" :> region) @@ ("count" :> Len(applications))
                                  @@ ("applications" :> applications)
                                  @@ ("nextToken" :> Get(response, "nextToken", None)),
                                  <<qbusiness_client>>,
                                  <<first>> \o [i \in 1..Len(apps) |->
                                        ApiCall(qbusiness_client, "list_retrievers",
                                                "applicationId" :> apps[i]["applicationId"])])

\* Longest 'relevantContent' list of a SearchRelevantContent response.
MaxHits == 2

\* The content items the retriever can return.
QItems ==
    { ("content" :> "text one") @@ ("documentId" :> "doc-1") @@ ("documentTitle" :> "Doc one")
        @@ ("documentUri" :> "https://example.com/1")
        @@ ("scoreAttributes" :> ("scoreConfidence" :> "HIGH"))
        @@ ("documentAttributes" :> <<("name" :> "_source_uri") @@ ("value" :> "s3://bucket/1")>>),
      ("content" :> "text two") @@ ("documentId" :> "doc-2") @@ ("documentAttributes" :> <<>>) }

\* What search_relevant_content can do.
SearchOutcomes ==
    {Raise("ValidationException", "Retriever not found")}
    \cup {Return(c @@ n) : c \in Opt("relevantContent", Lists(QItems, MaxHits)), n \in Opt("nextToken", {"next-1"})}

\* The arguments of QBusinessSearchRelevantContentTool.
SearchArgs ==
    { ("queryText" :> "how to") @@ ("applicationId" :> "app-1") @@ ("retrieverId" :> "ret-1") @@ a :
        a \in ListArgs }

\* qbusiness_search_relevant_content_tool
qbusiness_search_relevant_content_tool(args, tvm, svc) ==
    LET failed(e) == ("error" :> e.msg) @@ ("query" :> args["queryText"])
                     @@ ("applicationId" :> args["applicationId"])
                     @@ ("retrieverId" :> args["retrieverId"])
        created == get_identity_aware_qbusiness_client(PassRegion(args), tvm)
    IN IF created.kind = "raise" THEN ToolResult(failed(created), <<>>, <<>>)
       ELSE LET qbusiness_client == created.value
                request_params ==
                    ("applicationId" :> args["applicationId"]) @@ ("queryText" :> args["queryText"])
                    @@ ("contentSource" :> ("retriever" :> ("retrieverId" :> args["retrieverId"])))
                    @@ Only(args, {"maxResults", "nextToken"})
                call == ApiCall(qbusiness_client, "search_relevant_content", request_params)
            IN IF svc.kind = "raise"
               THEN ToolResult(failed(svc), <<qbusiness_client>>, <<call>>)
               ELSE LET response == svc.value
                        items == Get(response, "relevantContent", <<>>)
                        attr_info(attr) == ("name" :> Get(attr, "name", None)) @@ ("value" :> Get(attr, "value", None))
                        content_item(item) ==
                            ("content" :> Get(item, "content", None))
                            @@ ("documentId" :> Get(item, "documentId", None))
                            @@ ("documentTitle" :> Get(item, "documentTitle", None))
                            @@ ("documentUri" :> Get(item, "documentUri", None))
                            @@ ("scoreConfidence" :>
                                    IF "scoreAttributes" \in DOMAIN item /\ item["scoreAttributes"] # <<>>
                                    THEN Get(item["scoreAttributes"], "scoreConfidence", None) ELSE None)
                            @@ (IF "documentAttributes" \in DOMAIN item /\ item["documentAttributes"] # <<>>
                                THEN "documentAttributes" :>
                                        [j \in 1..Len(item["documentAttributes"]) |->
                                            attr_info(item["documentAttributes"][j])]
                                ELSE <<>>)
                    IN ToolResult(("query" :> args["queryText"]) @@ ("applicationId" :> args["applicationId"])
                                  @@ ("retrieverId" :> args["retrieverId"])
                                  @@ ("nextToken" :> Get(response, "nextToken", None))
                                  @@ ("results" :> [i \in 1..Len(items) |-> content_item(items[i])]),
                                  <<qbusiness_client>>, <<call>>)

\* Q Business holds at most this many conversations.
MaxConvs == 2

ConvIds == {"conv" \o NatStr(k) : k \in 1..MaxConvs}
UserMessages == {"hello", "and then?"}

\* applicationId and pluginId of the chat request.
ChatApplicationId == "43b53b94-f607-4c3d-8938-d05937db8d62"
ChatPluginId == "e3873c23-5455-44c6-bea1-fbaadf3b22c4"

\* The parts of a ChatSync response that may be missing.
ChatExtras ==
    { t @@ p @@ c :
        t \in Opt("attributionToken", {"attr-next"}),
        p \in Opt("pluginResult", {("pluginId" :> ChatPluginId) @@ ("status" :> "SUCCESS")}),
        c \in Opt("citations", {<<>>, <<("title" :> "Doc one") @@ ("url" :> "https://example.com/1")>>}) }

\* The service fails for its own reasons, or answers with these extras.
ChatOutcomes == {Raise("ThrottlingException", "Rate exceeded")} \cup {Return(x) : x \in ChatExtras}

\* ChatSync at the service: a request without conversationId starts a new
\* conversation, one with the id of a conversation continues it, any other id is
\* refused. convs maps each conversation to the last user message it received.
ChatSyncService(convs, kwargs, svc) ==
    LET answer(id) == Return(("conversationId" :> id) @@ ("systemMessage" :> "answer") @@ svc.value)
    IN IF svc.kind = "raise" THEN [response |-> svc, convs |-> convs]
       ELSE IF "conversationId" \in DOMAIN kwargs
       THEN IF kwargs["conversationId"] \in DOMAIN convs
            THEN [response |-> answer(kwargs["conversationId"]),
                  convs |-> [convs EXCEPT ![kwargs["conversationId"]] = kwargs["userMessage"]]]
            ELSE [response |-> Raise("ResourceNotFoundException", "Conversation not found"),
                  convs |-> convs]
       ELSE IF Cardinality(DOMAIN convs) < MaxConvs
       THEN LET id == "conv" \o NatStr(Cardinality(DOMAIN convs) + 1)
            IN [response |-> answer(id), convs |-> (id :> kwargs["userMessage"]) @@ convs]
       ELSE [response |-> Raise("ServiceQuotaExceededException", "Too many conversations"),
             convs |-> convs]

\* The arguments of QBusinessChatSyncTool.
ChatArgs ==
    { ("userMessage" :> m) @@ r @@ c @@ a :
        m \in UserMessages, r \in Opt("region", {"", "eu-west-1"}),
        c \in Opt("conversationId", {""} \cup ConvIds), a \in Opt("attributionToken", {"attr"}) }

\* qbusiness_chat_sync_tool; also gives the conversations the service holds afterwards.
qbusiness_chat_sync_tool(args, tvm, svc, convs) ==
    LET failed(e) == ("error" :> e.msg) @@ ("applicationId" :> ChatApplicationId)
                     @@ ("userMessage" :> args["userMessage"]) @@ ("pluginId" :> ChatPluginId)
        created == get_identity_aware_qbusiness_client(PassRegion(args), tvm)
    IN IF created.kind = "raise"
       THEN [convs |-> convs, result |-> ToolResult(failed(created), <<>>, <<>>)]
       ELSE LET qbusiness_client == created.value
                request_params ==
                    ("applicationId" :> ChatApplicationId) @@ ("userMessage" :> args["userMessage"])
                    @@ ("chatMode" :> "PLUGIN_MODE")
                    @@ ("chatModeConfiguration" :> ("pluginConfiguration" :> ("pluginId" :> ChatPluginId)))
                    @@ Only(args, {"conversationId", "attributionToken"})
                call == ApiCall(qbusiness_client, "chat_sync", request_params)
                served == ChatSyncService(convs, request_params, svc)
            IN IF served.response.kind = "raise"
               THEN [convs |-> served.convs,
                     result |-> ToolResult(failed(served.response), <<qbusiness_client>>, <<call>>)]
               ELSE LET response == served.response.value
                        citation_info(c) ==
                            ("title" :> Get(c, "title", None)) @@ ("url" :> Get(c, "url", None))
                            @@ ("snippet" :> Get(c, "snippet", None))
                        result ==
                            ("conversationId" :> Get(response, "conversationId", None))
                            @@ ("systemMessage" :> Get(response, "systemMessage", None))
                            @@ ("userMessage" :> args["userMessage"])
                            @@ ("attributionToken" :> Get(response, "attributionToken", None))
                            @@ (IF "pluginResult" \in DOMAIN response
                                THEN "pluginResult" :>
                                        (("pluginId" :> Get(response["pluginResult"], "pluginId", None))
                                         @@ ("status" :> Get(response["pluginResult"], "status", None))
                                         @@ ("body" :> Get(response["pluginResult"], "body", None)))
                                ELSE <<>>)
                            @@ (IF "citations" \in DOMAIN response /\ response["citations"] # <<>>
                                THEN "citations" :> [j \in 1..Len(response["citations"]) |->
                                                        citation_info(response["citations"][j])]
                                ELSE <<>>)
                    IN [convs |-> served.convs,
                        result |-> ToolResult(result, <<qbusiness_client>>, <<call>>)]

\* The state after a call of a tool.
ToolCalled(tool, args, given, r, convs) ==
    /\ qLast = NoCall
    /\ qLast' = [out |-> r.out, calls |-> r.calls, args |-> args, clients |-> r.clients,
                 convs |-> qConvs, tool |-> tool, given |-> given]
    /\ qConvs' = convs
    /\ UNCHANGED <<qEnv, mathVars, kendraVars, mainVars, tokenVars, webVars, apiVars, raceVars, sfVars>>

QBusinessListApplicationsTool ==
    \E args \in ListArgs, boto \in BotoOutcomes, svc \in ListApplicationsOutcomes,
       retr \in RetrieverBehaviours :
        ToolCalled("QBusinessListApplicationsTool", args,
                   [create |-> boto, svc |-> svc, retr |-> retr],
                   qbusiness_list_applications_tool(args, qEnv, boto, svc, retr), qConvs)

QBusinessSearchRelevantContentTool ==
    \E args \in SearchArgs, tvm \in TvmOutcomes, svc \in SearchOutcomes :
        ToolCalled("QBusinessSearchRelevantContentTool", args,
                   [create |-> tvm, svc |-> svc, retr |-> <<>>],
                   qbusiness_search_relevant_content_tool(args, tvm, svc), qConvs)

QBusinessChatSyncTool ==
    \E args \in ChatArgs, tvm \in TvmOutcomes, svc \in ChatOutcomes :
        LET r == qbusiness_chat_sync_tool(args, tvm, svc, qConvs)
        IN ToolCalled("QBusinessChatSyncTool", args,
                      [create |-> tvm, svc |-> svc, retr |-> <<>>], r.result, r.convs)

\* The MCP client has received the tool's result.
ToolReturned ==
    /\ qLast # NoCall
    /\ qLast' = NoCall
    /\ UNCHANGED <<qEnv, qConvs, mathVars, kendraVars, mainVars, tokenVars, webVars, apiVars, raceVars, sfVars>>

\* The tools that hold no conversation.
QNext ==
    \/ QBusinessListApplicationsTool
    \/ QBusinessSearchRelevantContentTool
    \/ ToolReturned

\* The chat tool, call after call.
ChatNext ==
    \/ QBusinessChatSyncTool
    \/ ToolReturned

\* ------------------------------------------------------------------------
\* make_api_request and the OktaApiClient methods built on it
\* ------------------------------------------------------------------------

\* str.upper(), letter by letter.
UpperChar(c) ==
    CASE c = "a" -> "A" [] c = "c" -> "C" [] c = "d" -> "D" [] c = "e" -> "E" [] c = "g" -> "G"
      [] c = "h" -> "H" [] c = "l" -> "L" [] c = "o" -> "O" [] c = "p" -> "P" [] c = "s" -> "S"
      [] c = "t" -> "T" [] c = "u" -> "U" [] OTHER -> c

RECURSIVE Upper(_)
Upper(s) == IF s = "" THEN "" ELSE UpperChar(SubSeq(s, 1, 1)) \o Upper(SubSeq(s, 2, Len(s)))

\* endpoint.lstrip('/')
RECURSIVE LStripSlash(_)
LStripSlash(s) ==
    IF s # "" /\ SubSeq(s, 1, 1) = "/" THEN LStripSlash(SubSeq(s, 2, Len(s))) ELSE s

\* The classes that define make_api_request.
ApiClasses == {"OktaAuthClient", "OktaApiClient"}

Methods == {"GET", "get", "POST", "Put", "delete", "PATCH", "HEAD"}
Endpoints == {"users", "/users", "//apps/0oa1/users"}
OrgUrl == "https://dev-1.okta.com"

\* Python values that are told apart by isinstance: a dict, a list, a bool.
PyDict(d) == [d |-> d, t |-> "dict"]
PyList(l) == [l |-> l, t |-> "list"]
PyBool(b) == [b |-> b, t |-> "bool"]

\* What the HTTP request can do: raise a RequestException (no connection, or
\* raise_for_status on 4xx/5xx), or answer 2xx with an empty body, a JSON object
\* or a JSON array.
ApiOutcomes ==
    {Raise("RequestException", "404 Client Error: Not Found"),
     Return([content |-> FALSE, json |-> PyDict(<<>>)]),
     Return([content |-> TRUE, json |-> PyDict(("id" :> "00u1") @@ ("status" :> "ACTIVE"))]),
     Return([content |-> TRUE, json |-> PyList(<<("id" :> "00u1"), ("id" :> "00u2")>>)])}

\* An unsupported method answered with an error dict.
UnsupportedMethodAsError(method) ==
    Return(PyDict("error" :> ("Unsupported HTTP method: " \o method)))

\* raise ValueError(f"Unsupported HTTP method: {method}"), which the
\* `except RequestException` clause does not catch.
UnsupportedMethod(method) == Raise("ValueError", "Unsupported HTTP method: " \o method)

\* The result of a call: its outcome and the HTTP requests it sent.
ApiResult(out, reqs) == [out |-> out, reqs |-> reqs]

\* make_api_request(endpoint, method), of either class (OktaApiClient's also
\* passes params on, which changes nothing here).
make_api_request(endpoint, method, http) ==
    LET url == OrgUrl \o "/api/v1/" \o LStripSlash(endpoint)
        verb == Upper(method)
    IN IF verb \notin {"GET", "POST", "PUT", "DELETE"}
       THEN ApiResult(UnsupportedMethod(method), <<>>)
       ELSE LET req == [url |-> url, verb |-> verb]
            IN IF http.kind = "raise"
               THEN ApiResult(Return(PyDict("error" :> http.msg)), <<req>>)
               ELSE IF http.value.content
               THEN ApiResult(Return(http.value.json), <<req>>)
               ELSE ApiResult(Return(PyDict(<<>>)), <<req>>)

\* list_users, list_applications, list_application_users: the response if it is
\* a list, else [].
ListOf(endpoint, http) ==
    LET r == make_api_request(endpoint, "GET", http)
    IN IF r.out.kind = "raise" THEN r
       ELSE IF r.out.value.t = "list" THEN r
       ELSE ApiResult(Return(PyList(<<>>)), r.reqs)

\* 'error' not in response: for a dict a test of its keys; for a list a test of
\* its elements, which are JSON objects and never the string 'error'.
NoError(response) ==
    IF response.t = "dict" THEN "error" \notin DOMAIN response.d ELSE TRUE

\* deactivate_user (POST) and delete_user (DELETE): 'error' not in response.
Succeeded(endpoint, method, http) ==
    LET r == make_api_request(endpoint, method, http)
    IN IF r.out.kind = "raise" THEN r
       ELSE ApiResult(Return(PyBool(NoError(r.out.value))), r.reqs)

ApiCalled(cls, op, args, http, r) ==
    /\ aLast' = [out |-> r.out, args |-> args, http |-> http, reqs |-> r.reqs, op |-> op, cls |-> cls]
    /\ UNCHANGED <<mathVars, kendraVars, mainVars, tokenVars, webVars, qVars, raceVars, sfVars>>

MakeApiRequest ==
    \E cls \in ApiClasses, endpoint \in Endpoints, method \in Methods, http \in ApiOutcomes :
        ApiCalled(cls, "make_api_request", [endpoint |-> endpoint, method |-> method], http,
                  make_api_request(endpoint, method, http))

ListUsers ==
    \E http \in ApiOutcomes :
        ApiCalled("OktaApiClient", "list_users", <<>>, http, ListOf("users", http))

ListApplications ==
    \E http \in ApiOutcomes :
        ApiCalled("OktaApiClient", "list_applications", <<>>, http, ListOf("apps", http))

ListApplicationUsers ==
    \E http \in ApiOutcomes :
        ApiCalled("OktaApiClient", "list_application_users", <<>>, http, ListOf("apps/0oa1/users", http))

DeactivateUser ==
    \E http \in ApiOutcomes :
        ApiCalled("OktaApiClient", "deactivate_user", <<>>, http,
                  Succeeded("users/00u1/lifecycle/deactivate", "POST", http))

DeleteUser ==
    \E http \in ApiOutcomes :
        ApiCalled("OktaApiClient", "delete_user", <<>>, http, Succeeded("users/00u1", "DELETE", http))

ApiNext ==
    \/ MakeApiRequest
    \/ ListUsers
    \/ ListApplications
    \/ ListApplicationUsers
    \/ DeactivateUser
    \/ DeleteUser

\* ------------------------------------------------------------------------
\* refresh_tokens step by step, for clients that share tokens.json
\* ------------------------------------------------------------------------

\* The events of at most this many steps are kept (two complete refreshes).
MaxEvents == 6

\* The token set a previous run left in tokens.json.
EarlierTokens == ("access_token" :> "at0") @@ ("refresh_token" :> "rt0")

\* One step of refresh_tokens, as the event that is logged.
Event(c, ev, sent, tokens) == [tokens |-> tokens, c |-> c, ev |-> ev, sent |-> sent]

\* self.load_tokens(); if 'refresh_token' not in self.tokens: return False;
\* otherwise the request is prepared with self.tokens['refresh_token'].
RefreshLoad(c) ==
    /\ rProc[c].pc = "idle"
    /\ Len(rLog) + 3 <= MaxEvents
    /\ LET m == load_tokens(tMem[c], tFile).mem
       IN /\ tMem' = [tMem EXCEPT ![c] = m]
          /\ IF "refresh_token" \in DOMAIN m
             THEN /\ rProc' = [rProc EXCEPT ![c] = [pc |-> "post", sent |-> m["refresh_token"]]]
                  /\ rLog' = Append(rLog, Event(c, "load", m["refresh_token"], m))
             ELSE UNCHANGED <<rProc, rLog>>
    /\ UNCHANGED <<tFile, tNow, tIssued, tLast, mathVars, kendraVars, mainVars, webVars, qVars, apiVars, sfVars>>

\* requests.post(token_url, ...): on an error False is returned; otherwise
\* new_tokens is built from the response and self.tokens.
RefreshPost(c) ==
    /\ rProc[c].pc = "post"
    /\ \E http \in TokenOutcomes(tIssued) :
        IF http.kind = "raise"
        THEN /\ rProc' = [rProc EXCEPT ![c] = RefreshIdle]
             /\ rLog' = Append(rLog, Event(c, "rejected", rProc[c].sent, <<>>))
             /\ UNCHANGED tIssued
        ELSE LET stamped == WithExpiresAt(http.value, tNow)
                 new_tokens == IF "refresh_token" \notin DOMAIN stamped
                               THEN ("refresh_token" :> tMem[c]["refresh_token"]) @@ stamped
                               ELSE stamped
             IN /\ rProc' = [rProc EXCEPT ![c] = [pc |-> "save", new_tokens |-> new_tokens,
                                                  sent |-> rProc[c].sent]]
                /\ rLog' = Append(rLog, Event(c, "post", rProc[c].sent, new_tokens))
                /\ tIssued' = tIssued + 1
    /\ UNCHANGED <<tFile, tMem, tNow, tLast, mathVars, kendraVars, mainVars, webVars, qVars, apiVars, sfVars>>

\* A save that leaves the file alone when it no longer holds what this call
\* loaded (the coordination the code does not have).
RefreshSaveIfUnchanged(c) ==
    /\ rProc[c].pc = "save"
    /\ \E io \in SaveOutcomes :
        LET saved == save_tokens(rProc[c].new_tokens, tFile, io)
            unchanged == "refresh_token" \in DOMAIN tFile.data
                         /\ tFile.data["refresh_token"] = rProc[c].sent
        IN /\ tMem' = [tMem EXCEPT ![c] = saved.mem]
           /\ tFile' = IF unchanged THEN saved.file ELSE tFile
           /\ rLog' = Append(rLog, Event(c, IF io = "ok" THEN "save" ELSE "save_failed",
                                         rProc[c].sent, rProc[c].new_tokens))
    /\ rProc' = [rProc EXCEPT ![c] = RefreshIdle]
    /\ UNCHANGED <<tNow, tIssued, tLast, mathVars, kendraVars, mainVars, webVars, qVars, apiVars, sfVars>>

\* self.save_tokens(new_tokens); return True
RefreshSave(c) ==
    /\ rProc[c].pc = "save"
    /\ \E io \in SaveOutcomes :
        LET saved == save_tokens(rProc[c].new_tokens, tFile, io)
        IN /\ tMem' = [tMem EXCEPT ![c] = saved.mem]
           /\ tFile' = saved.file
           /\ rLog' = Append(rLog, Event(c, IF io = "ok" THEN "save" ELSE "save_failed",
                                         rProc[c].sent, rProc[c].new_tokens))
    /\ rProc' = [rProc EXCEPT ![c] = RefreshIdle]
    /\ UNCHANGED <<tNow, tIssued, tLast, mathVars, kendraVars, mainVars, webVars, qVars, apiVars, sfVars>>

RaceNext ==
    \E c \in Clients :
        \/ RefreshLoad(c)
        \/ RefreshPost(c)
        \/ RefreshSave(c)

\* ------------------------------------------------------------------------
\* salesforce_oauth_app: the FastAPI routes of the Salesforce OAuth demo
\* ------------------------------------------------------------------------

\* /login of the Salesforce app is served at most this many times.
MaxSfLogins == 2

\* The Salesforce token endpoint is asked at most this many times.
MaxPosts == 2

\* HTMLResponse(content): status 200 unless the handler says otherwise, which
\* none of these handlers does.
HTMLResponse(content) == [content |-> content, status_code |-> 200, params |-> <<>>]

\* RedirectResponse(url): the query parameters of the URL that vary.
RedirectResponse(params) == [content |-> "", status_code |-> 307, params |-> params]

\* JSONResponse(content, status_code).
JSONResponse(content, status_code) == [content |-> "", status_code |-> status_code, params |-> content]

\* An exception that leaves a handler: the server answers 500.
InternalServerError(exc) == [content |-> exc, status_code |-> 500, params |-> <<>>]

\* login(), at the k-th draw of a random state and a random verifier: the
\* verifier is stored under the state and the browser is redirected to the
\* authorization endpoint with the state and the verifier's challenge.
salesforce_login(pkce_verifiers, k) ==
    LET state == "sfstate" \o NatStr(k)
        code_verifier == "sfverifier" \o NatStr(k)
        code_challenge == S256(code_verifier)
        params == ("state" :> state) @@ ("code_challenge" :> code_challenge)
                  @@ ("code_challenge_method" :> "S256")
    IN [response |-> RedirectResponse(params),
        pkce_verifiers |-> (state :> code_verifier) @@ pkce_verifiers]

\* The query strings a callback request can carry (request.query_params): no
\* state, a state no login drew or one that a login can draw; no code, an empty
\* or a real one; an error or none.
SfCallbackArgs ==
    { (IF st # None THEN "state" :> st ELSE <<>>) @@ (IF code # None THEN "code" :> code ELSE <<>>)
      @@ (IF error # None THEN "error" :> error ELSE <<>>) :
        st \in {None, "forged"} \cup {"sfstate" \o NatStr(k) : k \in 1..MaxSfLogins},
        code \in Codes, error \in {None, "access_denied"} }

\* What requests.post(TOKEN_ENDPOINT) can do: raise, answer with an error
\* status, or answer 200 with the tokens as a JSON object (with or without
\* instance_url).
SfTokenOutcomes ==
    { Raise("ConnectionError", "Connection refused"),
      Return([json |-> <<>>, status_code |-> 400, text |-> "invalid_grant"]),
      Return([json |-> ("access_token" :> "sfat") @@ ("instance_url" :> "https://na1.salesforce.com"),
              status_code |-> 200, text |-> ""]),
      Return([json |-> ("access_token" :> "sfat"), status_code |-> 200, text |-> ""]) }

\* What requests.get(<instance_url>/services/oauth2/userinfo) can do.
SfUserinfoOutcomes ==
    { Raise("ConnectionError", "Connection refused"),
      Return([json |-> <<>>, status_code |-> 401]),
      Return([json |-> ("display_name" :> "Ada"), status_code |-> 200]) }

\* get_user_info: the identity on 200, {} on any other status.
get_user_info(identity) ==
    IF identity.kind = "raise" THEN identity
    ELSE IF identity.value.status_code = 200 THEN Return(identity.value.json)
    ELSE Return(<<>>)

\* What a handler leaves behind: its response, the two module dicts, and the
\* token requests it sent.
SfResult(response, pkce_verifiers, user_tokens, posts) ==
    [response |-> response, pkce_verifiers |-> pkce_verifiers, user_tokens |-> user_tokens,
     posts |-> posts]

\* The token request of a callback, as the history keeps it: the state the
\* callback carried, the form data sent, and the status answered (0: none).
TokenPost(state, token_data, http) ==
    [data |-> token_data, state |-> state,
     status_code |-> IF http.kind = "raise" THEN 0 ELSE http.value.status_code]

\* A callback that leaves the verifier in pkce_verifiers after the exchange.
cleanup_verifier_kept(pkce_verifiers, state) == pkce_verifiers

\* '# Clean up the PKCE verifier': pkce_verifiers.pop(state, None).
cleanup_verifier(pkce_verifiers, state) ==
    [s \in (DOMAIN pkce_verifiers) \ {state} |-> pkce_verifiers[s]]

\* salesforce_callback(request), drawing session_id as the random session id.
salesforce_callback(query_params, pkce_verifiers, user_tokens, session_id, http, identity) ==
    LET code == Get(query_params, "code", None)
        state == Get(query_params, "state", None)
        error == Get(query_params, "error", None)
        code_verifier == Get(pkce_verifiers, state, None)
    IN IF Truthy(error)
       THEN SfResult(HTMLResponse("<h1>Error</h1><p>" \o error \o "</p>"),
                     pkce_verifiers, user_tokens, <<>>)
       ELSE IF ~Truthy(code)
       THEN SfResult(HTMLResponse("<h1>Error</h1><p>No authorization code received</p>"),
                     pkce_verifiers, user_tokens, <<>>)
       ELSE IF ~Truthy(code_verifier)
       THEN SfResult(HTMLResponse("<h1>Error</h1><p>Invalid state parameter</p>"),
                     pkce_verifiers, user_tokens, <<>>)
       ELSE LET token_data == ("grant_type" :> "authorization_code") @@ ("code" :> code)
                              @@ ("code_verifier" :> code_verifier)
                posts == <<TokenPost(state, token_data, http)>>
            IN IF http.kind = "raise"
               THEN SfResult(InternalServerError(http.exc), pkce_verifiers, user_tokens, posts)
               ELSE IF http.value.status_code # 200
               THEN SfResult(HTMLResponse("<h1>Token Error</h1><p>" \o http.value.text \o "</p>"),
                             pkce_verifiers, user_tokens, posts)
               ELSE LET tokens == http.value.json
                        stored == (session_id :> tokens) @@ user_tokens
                        cleaned == cleanup_verifier(pkce_verifiers, state)
                        user_info == get_user_info(identity)
                    IN IF "access_token" \notin DOMAIN tokens \/ "instance_url" \notin DOMAIN tokens
                       THEN SfResult(InternalServerError("KeyError"), cleaned, stored, posts)
                       ELSE IF user_info.kind = "raise"
                       THEN SfResult(InternalServerError(user_info.exc), cleaned, stored, posts)
                       ELSE SfResult(HTMLResponse("<h1>Authentication Successful!</h1><p>Welcome, "
                                                  \o Get(user_info.value, "display_name", "User")
                                                  \o "!</p>"),
                                     cleaned, stored, posts)

\* get_tokens(session_id): the stored tokens, or 404.
get_tokens(session_id, user_tokens) ==
    IF session_id \notin DOMAIN user_tokens
    THEN JSONResponse("error" :> "Session not found", 404)
    ELSE JSONResponse(user_tokens[session_id], 200)

\* The state after a request of a route of the Salesforce app.
SfServed(route, args, r) ==
    /\ sLast = NoCall
    /\ sVerifiers' = r.pkce_verifiers
    /\ sTokens' = r.user_tokens
    /\ sPosts' = sPosts \o r.posts
    /\ sLast' = [response |-> r.response, args |-> args,
                 before |-> [pkce_verifiers |-> sVerifiers, user_tokens |-> sTokens],
                 route |-> route, posts |-> r.posts]
    /\ UNCHANGED <<mathVars, kendraVars, mainVars, tokenVars, webVars, qVars, apiVars, raceVars>>

SfLogin ==
    /\ sRand < MaxSfLogins
    /\ sRand' = sRand + 1
    /\ LET l == salesforce_login(sVerifiers, sRand + 1)
       IN /\ sSent' = sSent \cup {l.response.params}
          /\ SfServed("login", <<>>, SfResult(l.response, l.pkce_verifiers, sTokens, <<>>))

\* The session id drawn is one that user_tokens does not hold yet.
SfCallback ==
    \E args \in SfCallbackArgs, http \in SfTokenOutcomes, identity \in SfUserinfoOutcomes :
        LET session_id == "session" \o NatStr(Cardinality(DOMAIN sTokens) + 1)
            r == salesforce_callback(args, sVerifiers, sTokens, session_id, http, identity)
        IN /\ Len(sPosts) + Len(r.posts) <= MaxPosts
           /\ UNCHANGED <<sRand, sSent>>
           /\ SfServed("callback", args, r)

SfGetTokens ==
    \E session_id \in (DOMAIN sTokens) \cup {"unknown"} :
        /\ UNCHANGED <<sRand, sSent>>
        /\ SfServed("tokens", "session_id" :> session_id,
                    SfResult(get_tokens(session_id, sTokens), sVerifiers, sTokens, <<>>))

\* The browser has received the response.
SfDone ==
    /\ sLast # NoCall
    /\ sLast' = NoCall
    /\ UNCHANGED <<sVerifiers, sTokens, sRand, sSent, sPosts,
                   mathVars, kendraVars, mainVars, tokenVars, webVars, qVars, apiVars, raceVars>>

SfNext ==
    \/ SfLogin
    \/ SfCallback
    \/ SfGetTokens
    \/ SfDone

\* ------------------------------------------------------------------------
\* Specifications
\* ------------------------------------------------------------------------

MathInit ==
    /\ mathOp \in Operations
    /\ mathA \in Numbers
    /\ mathB \in Numbers
    /\ mathOut = NoCall
    /\ kEnv = None
    /\ kQuery = ""
    /\ kClient = None
    /\ kOut = NoCall
    /\ kCalls = <<>>
    /\ mServer = "amazon-q"
    /\ mArgv = DefaultArgv
    /\ mPc = "start"
    /\ mLog = <<>>
    /\ mSettings = <<>>
    /\ mRuns = <<>>
    /\ tFile = FileAbsent
    /\ tMem = [c \in Clients |-> <<>>]
    /\ tNow = 0
    /\ tIssued = 0
    /\ tLast = NoCall
    /\ wSession = [b \in Sessions |-> <<>>]
    /\ wRand = 0
    /\ wLast = NoCall
    /\ qEnv = <<>>
    /\ qConvs = <<>>
    /\ qLast = NoCall
    /\ aLast = NoCall
    /\ rProc = [c \in Clients |-> RefreshIdle]
    /\ rLog = <<>>
    /\ wSent = {}
    /\ sVerifiers = <<>>
    /\ sTokens = <<>>
    /\ sRand = 0
    /\ sSent = {}
    /\ sPosts = <<>>
    /\ sLast = NoCall

KendraInit ==
    /\ mathOp = ""
    /\ mathA = PyInt(0)
    /\ mathB = PyInt(0)
    /\ mathOut = NoCall
    /\ kEnv \in KendraIndexIds
    /\ kQuery \in KendraQueries
    /\ kClient \in KendraClients
    /\ kOut = NoCall
    /\ kCalls = <<>>
    /\ mServer = "amazon-q"
    /\ mArgv = DefaultArgv
    /\ mPc = "start"
    /\ mLog = <<>>
    /\ mSettings = <<>>
    /\ mRuns = <<>>
    /\ tFile = FileAbsent
    /\ tMem = [c \in Clients |-> <<>>]
    /\ tNow = 0
    /\ tIssued = 0
    /\ tLast = NoCall
    /\ wSession = [b \in Sessions |-> <<>>]
    /\ wRand = 0
    /\ wLast = NoCall
    /\ qEnv = <<>>
    /\ qConvs = <<>>
    /\ qLast = NoCall
    /\ aLast = NoCall
    /\ rProc = [c \in Clients |-> RefreshIdle]
    /\ rLog = <<>>
    /\ wSent = {}
    /\ sVerifiers = <<>>
    /\ sTokens = <<>>
    /\ sRand = 0
    /\ sSent = {}
    /\ sPosts = <<>>
    /\ sLast = NoCall

MainInit ==
    /\ mathOp = ""
    /\ mathA = PyInt(0)
    /\ mathB = PyInt(0)
    /\ mathOut = NoCall
    /\ kEnv = None
    /\ kQuery = ""
    /\ kClient = None
    /\ kOut = NoCall
    /\ kCalls = <<>>
    /\ mServer \in Servers
    /\ mArgv \in Argvs
    /\ mPc = "start"
    /\ mLog = <<>>
    /\ mSettings = <<>>
    /\ mRuns = <<>>
    /\ tFile = FileAbsent
    /\ tMem = [c \in Clients |-> <<>>]
    /\ tNow = 0
    /\ tIssued = 0
    /\ tLast = NoCall
    /\ wSession = [b \in Sessions |-> <<>>]
    /\ wRand = 0
    /\ wLast = NoCall
    /\ qEnv = <<>>
    /\ qConvs = <<>>
    /\ qLast = NoCall
    /\ aLast = NoCall
    /\ rProc = [c \in Clients |-> RefreshIdle]
    /\ rLog = <<>>
    /\ wSent = {}
    /\ sVerifiers = <<>>
    /\ sTokens = <<>>
    /\ sRand = 0
    /\ sSent = {}
    /\ sPosts = <<>>
    /\ sLast = NoCall

SpecMath == MathInit /\ [][MathNext]_vars

SpecKendra == KendraInit /\ [][KendraNext]_vars

SpecMain == MainInit /\ [][MainNext]_vars

TokenInit ==
    /\ mathOp = ""
    /\ mathA = PyInt(0)
    /\ mathB = PyInt(0)
    /\ mathOut = NoCall
    /\ kEnv = None
    /\ kQuery = ""
    /\ kClient = None
    /\ kOut = NoCall
    /\ kCalls = <<>>
    /\ mServer = "amazon-q"
    /\ mArgv = DefaultArgv
    /\ mPc = "start"
    /\ mLog = <<>>
    /\ mSettings = <<>>
    /\ mRuns = <<>>
    /\ tFile = FileAbsent
    /\ tMem = [c \in Clients |-> <<>>]
    /\ tNow = 0
    /\ tIssued = 0
    /\ tLast = NoCall
    /\ wSession = [b \in Sessions |-> <<>>]
    /\ wRand = 0
    /\ wLast = NoCall
    /\ qEnv = <<>>
    /\ qConvs = <<>>
    /\ qLast = NoCall
    /\ aLast = NoCall
    /\ rProc = [c \in Clients |-> RefreshIdle]
    /\ rLog = <<>>
    /\ wSent = {}
    /\ sVerifiers = <<>>
    /\ sTokens = <<>>
    /\ sRand = 0
    /\ sSent = {}
    /\ sPosts = <<>>
    /\ sLast = NoCall

SpecTokens == TokenInit /\ [][TokenNext]_vars

WebInit ==
    /\ mathOp = ""
    /\ mathA = PyInt(0)
    /\ mathB = PyInt(0)
    /\ mathOut = NoCall
    /\ kEnv = None
    /\ kQuery = ""
    /\ kClient = None
    /\ kOut = NoCall
    /\ kCalls = <<>>
    /\ mServer = "amazon-q"
    /\ mArgv = DefaultArgv
    /\ mPc = "start"
    /\ mLog = <<>>
    /\ mSettings = <<>>
    /\ mRuns = <<>>
    /\ tFile = FileAbsent
    /\ tMem = [c \in Clients |-> <<>>]
    /\ tNow = 0
    /\ tIssued = 0
    /\ tLast = NoCall
    /\ wSession = [b \in Sessions |-> <<>>]
    /\ wRand = 0
    /\ wLast = NoCall
    /\ qEnv = <<>>
    /\ qConvs = <<>>
    /\ qLast = NoCall
    /\ aLast = NoCall
    /\ rProc = [c \in Clients |-> RefreshIdle]
    /\ rLog = <<>>
    /\ wSent = {}
    /\ sVerifiers = <<>>
    /\ sTokens = <<>>
    /\ sRand = 0
    /\ sSent = {}
    /\ sPosts = <<>>
    /\ sLast = NoCall

SpecWeb == WebInit /\ [][WebNext]_vars

QInit ==
    /\ mathOp = ""
    /\ mathA = PyInt(0)
    /\ mathB = PyInt(0)
    /\ mathOut = NoCall
    /\ kEnv = None
    /\ kQuery = ""
    /\ kClient = None
    /\ kOut = NoCall
    /\ kCalls = <<>>
    /\ mServer = "amazon-q"
    /\ mArgv = DefaultArgv
    /\ mPc = "start"
    /\ mLog = <<>>
    /\ mSettings = <<>>
    /\ mRuns = <<>>
    /\ tFile = FileAbsent
    /\ tMem = [c \in Clients |-> <<>>]
    /\ tNow = 0
    /\ tIssued = 0
    /\ tLast = NoCall
    /\ wSession = [b \in Sessions |-> <<>>]
    /\ wRand = 0
    /\ wLast = NoCall
    /\ qEnv \in QEnvs
    /\ qConvs = <<>>
    /\ qLast = NoCall
    /\ aLast = NoCall
    /\ rProc = [c \in Clients |-> RefreshIdle]
    /\ rLog = <<>>
    /\ wSent = {}
    /\ sVerifiers = <<>>
    /\ sTokens = <<>>
    /\ sRand = 0
    /\ sSent = {}
    /\ sPosts = <<>>
    /\ sLast = NoCall

SpecQ == QInit /\ [][QNext]_vars

ChatInit ==
    /\ mathOp = ""
    /\ mathA = PyInt(0)
    /\ mathB = PyInt(0)
    /\ mathOut = NoCall
    /\ kEnv = None
    /\ kQuery = ""
    /\ kClient = None
    /\ kOut = NoCall
    /\ kCalls = <<>>
    /\ mServer = "amazon-q"
    /\ mArgv = DefaultArgv
    /\ mPc = "start"
    /\ mLog = <<>>
    /\ mSettings = <<>>
    /\ mRuns = <<>>
    /\ tFile = FileAbsent
    /\ tMem = [c \in Clients |-> <<>>]
    /\ tNow = 0
    /\ tIssued = 0
    /\ tLast = NoCall
    /\ wSession = [b \in Sessions |-> <<>>]
    /\ wRand = 0
    /\ wLast = NoCall
    /\ qEnv \in QEnvs
    /\ qConvs = <<>>
    /\ qLast = NoCall
    /\ aLast = NoCall
    /\ rProc = [c \in Clients |-> RefreshIdle]
    /\ rLog = <<>>
    /\ wSent = {}
    /\ sVerifiers = <<>>
    /\ sTokens = <<>>
    /\ sRand = 0
    /\ sSent = {}
    /\ sPosts = <<>>
    /\ sLast = NoCall

SpecChat == ChatInit /\ [][ChatNext]_vars

ApiInit ==
    /\ mathOp = ""
    /\ mathA = PyInt(0)
    /\ mathB = PyInt(0)
    /\ mathOut = NoCall
    /\ kEnv = None
    /\ kQuery = ""
    /\ kClient = None
    /\ kOut = NoCall
    /\ kCalls = <<>>
    /\ mServer = "amazon-q"
    /\ mArgv = DefaultArgv
    /\ mPc = "start"
    /\ mLog = <<>>
    /\ mSettings = <<>>
    /\ mRuns = <<>>
    /\ tFile = FileAbsent
    /\ tMem = [c \in Clients |-> <<>>]
    /\ tNow = 0
    /\ tIssued = 0
    /\ tLast = NoCall
    /\ wSession = [b \in Sessions |-> <<>>]
    /\ wRand = 0
    /\ wLast = NoCall
    /\ qEnv = <<>>
    /\ qConvs = <<>>
    /\ qLast = NoCall
    /\ aLast = NoCall
    /\ rProc = [c \in Clients |-> RefreshIdle]
    /\ rLog = <<>>
    /\ wSent = {}
    /\ sVerifiers = <<>>
    /\ sTokens = <<>>
    /\ sRand = 0
    /\ sSent = {}
    /\ sPosts = <<>>
    /\ sLast = NoCall

SpecApi == ApiInit /\ [][ApiNext]_vars

RaceInit ==
    /\ mathOp = ""
    /\ mathA = PyInt(0)
    /\ mathB = PyInt(0)
    /\ mathOut = NoCall
    /\ kEnv = None
    /\ kQuery = ""
    /\ kClient = None
    /\ kOut = NoCall
    /\ kCalls = <<>>
    /\ mServer = "amazon-q"
    /\ mArgv = DefaultArgv
    /\ mPc = "start"
    /\ mLog = <<>>
    /\ mSettings = <<>>
    /\ mRuns = <<>>
    /\ tFile = FileOf(EarlierTokens)
    /\ tMem = [c \in Clients |-> <<>>]
    /\ tNow = 0
    /\ tIssued = 0
    /\ tLast = NoCall
    /\ wSession = [b \in Sessions |-> <<>>]
    /\ wRand = 0
    /\ wLast = NoCall
    /\ qEnv = <<>>
    /\ qConvs = <<>>
    /\ qLast = NoCall
    /\ aLast = NoCall
    /\ rProc = [c \in Clients |-> RefreshIdle]
    /\ rLog = <<>>
    /\ wSent = {}
    /\ sVerifiers = <<>>
    /\ sTokens = <<>>
    /\ sRand = 0
    /\ sSent = {}
    /\ sPosts = <<>>
    /\ sLast = NoCall

SpecRace == RaceInit /\ [][RaceNext]_vars

SfInit ==
    /\ mathOp = ""
    /\ mathA = PyInt(0)
    /\ mathB = PyInt(0)
    /\ mathOut = NoCall
    /\ kEnv = None
    /\ kQuery = ""
    /\ kClient = None
    /\ kOut = NoCall
    /\ kCalls = <<>>
    /\ mServer = "amazon-q"
    /\ mArgv = DefaultArgv
    /\ mPc = "start"
    /\ mLog = <<>>
    /\ mSettings = <<>>
    /\ mRuns = <<>>
    /\ tFile = FileAbsent
    /\ tMem = [c \in Clients |-> <<>>]
    /\ tNow = 0
    /\ tIssued = 0
    /\ tLast = NoCall
    /\ wSession = [b \in Sessions |-> <<>>]
    /\ wRand = 0
    /\ wLast = NoCall
    /\ qEnv = <<>>
    /\ qConvs = <<>>
    /\ qLast = NoCall
    /\ aLast = NoCall
    /\ rProc = [c \in Clients |-> RefreshIdle]
    /\ rLog = <<>>
    /\ wSent = {}
    /\ sVerifiers = <<>>
    /\ sTokens = <<>>
    /\ sRand = 0
    /\ sSent = {}
    /\ sPosts = <<>>
    /\ sLast = NoCall

SpecSf == SfInit /\ [][SfNext]_vars

\* ------------------------------------------------------------------------
\* Claims
\* ------------------------------------------------------------------------

\* `sub` occurs in the string `s`.
StrContains(s, sub) ==
    \E i \in 1..(Len(s) - Len(sub) + 1) : SubSeq(s, i, i + Len(sub) - 1) = sub

KendraQueried ==
    /\ kOut # NoCall
    /\ kClient.create.kind = "return"
    /\ kEnv \notin {None, ""}

\* C2: when the Kendra client's query call raises, example_tool does not raise:
\* it returns exactly {'error': <exception text>, 'query': <the query>,
\* 'index_id': <the configured index id>}, and query was called exactly once.
C2_KendraErrorDict ==
    (KendraQueried /\ kClient.query.kind = "raise") =>
        /\ kOut.kind = "return"
        /\ DOMAIN kOut.value = {"error", "query", "index_id"}
        /\ kOut.value["error"] = kClient.query.msg
        /\ kOut.value["query"] = kQuery
        /\ kOut.value["index_id"] = kEnv
        /\ Len(kCalls) = 1

C2_Witness ==
    /\ KendraQueried
    /\ kClient.query.kind = "raise"
    /\ kOut.kind = "return"
    /\ kOut.value["error"] = "Kendra service error"
    /\ kOut.value["index_id"] = "mock-index-id"

\* C3: on a successful Kendra query example_tool returns {'query',
\* 'total_results_count', 'results'}: total_results_count is the response's
\* TotalNumberOfResults (0 if absent); results has one entry per ResultItem, in
\* the response's order, each with id, type, document_title, document_uri and
\* score; an entry has 'excerpt' iff the item has DocumentExcerpt.Text and
\* 'additional_attributes' iff the item has AdditionalAttributes.
C3_KendraResults ==
    (KendraQueried /\ kClient.query.kind = "return") =>
        LET response == kClient.query.value
            items == IF "ResultItems" \in DOMAIN response THEN response["ResultItems"] ELSE <<>>
            res == kOut.value
        IN /\ kOut.kind = "return"
           /\ DOMAIN res = {"query", "total_results_count", "results"}
           /\ res["query"] = kQuery
           /\ res["total_results_count"] =
                (IF "TotalNumberOfResults" \in DOMAIN response
                 THEN response["TotalNumberOfResults"] ELSE 0)
           /\ Len(res["results"]) = Len(items)
           /\ \A i \in 1..Len(items) :
                LET e == res["results"][i]
                    it == items[i]
                    hasText == "DocumentExcerpt" \in DOMAIN it /\ "Text" \in DOMAIN it["DocumentExcerpt"]
                    hasAttrs == "AdditionalAttributes" \in DOMAIN it
                IN /\ {"id", "type", "document_title", "document_uri", "score"} \subseteq DOMAIN e
                   /\ DOMAIN e \subseteq {"id", "type", "document_title", "document_uri", "score",
                                          "excerpt", "additional_attributes"}
                   /\ ("Id" \in DOMAIN it => e["id"] = it["Id"])
                   /\ ("Type" \in DOMAIN it => e["type"] = it["Type"])
                   /\ ("DocumentURI" \in DOMAIN it => e["document_uri"] = it["DocumentURI"])
                   /\ ("excerpt" \in DOMAIN e <=> hasText)
                   /\ (hasText => e["excerpt"] = it["DocumentExcerpt"]["Text"])
                   /\ ("additional_attributes" \in DOMAIN e <=> hasAttrs)
                   /\ (hasAttrs => e["additional_attributes"] = it["AdditionalAttributes"])

C3_Witness ==
    /\ KendraQueried
    /\ kOut.kind = "return"
    /\ "results" \in DOMAIN kOut.value
    /\ Len(kOut.value["results"]) = 2
    /\ "excerpt" \in DOMAIN kOut.value["results"][1]
    /\ "excerpt" \notin DOMAIN kOut.value["results"][2]
    /\ "DocumentExcerpt" \in DOMAIN kClient.query.value["ResultItems"][2]
    /\ "additional_attributes" \in DOMAIN kOut.value["results"][2]
    /\ kOut.value["results"][1]["id"] = "result-1"
    /\ kOut.value["results"][2]["id"] = "result-2"

MathIntCall == mathOut # NoCall /\ ~mathA.f /\ ~mathB.f

C5_DivideByZero ==
    (mathOut # NoCall /\ mathOp = "divide" /\ mathB.n = 0) =>
        /\ mathOut.kind = "raise"
        /\ mathOut.exc = "ValueError"
        /\ (~mathB.f => mathOut.msg = "The denominator 0 cannot be zero.")
        /\ (mathB.f => mathOut.msg = "The denominator 0.0 cannot be zero.")

C5_Witness ==
    /\ mathOp = "divide"
    /\ mathA = PyInt(3)
    /\ mathB = PyInt(0)
    /\ mathOut = Raise("ValueError", "The denominator 0 cannot be zero.")

\* C6: math_tool called with an operation other than add, subtract, multiply or
\* divide raises, for every a and b, a ValueError whose message contains
\* 'Invalid operation: <operation>'.
C6_InvalidOperation ==
    (mathOut # NoCall /\ mathOp \notin {"add", "subtract", "multiply", "divide"}) =>
        /\ mathOut.kind = "raise"
        /\ mathOut.exc = "ValueError"
        /\ StrContains(mathOut.msg, "Invalid operation: " \o mathOp)

C6_Witness ==
    /\ mathOp = "power"
    /\ mathB.n = 0
    /\ mathOut.kind = "raise"
    /\ mathOut.msg = "Invalid operation: power (must be one of: add, subtract, multiply, divide)"

\* C7: the Amazon Q MCP server's main() invoked with default arguments calls
\* mcp.run exactly once, with no transport argument.
C7_QMainRunsOnce ==
    (mServer = "amazon-q" /\ mArgv = DefaultArgv) =>
        /\ Len(mRuns) <= 1
        /\ (mPc \in {"serving", "returned"} =>
                /\ Len(mRuns) = 1
                /\ "transport" \notin DOMAIN mRuns[1])

C7_Witness ==
    /\ mServer = "amazon-q"
    /\ mArgv = DefaultArgv
    /\ mPc = "returned"
    /\ mLog = LogLevels
    /\ mRuns = << <<>> >>

\* The last call was client method op, and its value has just been returned.
TCalled(op) == tLast # NoCall /\ tLast.op = op

\* The token set the token file holds: empty when the file is absent or unreadable.
StoredTokens == IF tFile.st = "ok" THEN tFile.data ELSE <<>>

NetworkOps ==
    {"exchange_code_for_tokens", "refresh_tokens", "revoke_tokens", "introspect_token",
     "get_userinfo"}

\* The endpoint an operation exists to call.
OwnEndpoint(op) ==
    CASE op \in {"exchange_code_for_tokens", "refresh_tokens"} -> "token"
      [] op = "revoke_tokens" -> "revoke"
      [] op = "introspect_token" -> "introspect"
      [] op = "get_userinfo" -> "userinfo"

\* The value returned says the operation failed: False, or a dict with key 'error'.
ErrorValue(op, ret) ==
    IF op \in {"refresh_tokens", "revoke_tokens"} THEN ret = FALSE
    ELSE "error" \in DOMAIN ret

\* The operation's own request was sent and failed.
OwnRequestFailed(op, reqs) ==
    \E i \in 1..Len(reqs) : reqs[i].to = OwnEndpoint(op) /\ ~reqs[i].ok

\* C1 as stated: each network operation of OktaOAuthClient issues at most one HTTP
\* request per call and, when that request fails, returns an error value (a dict
\* with key 'error', or False) instead of raising.
C1_OneRequestPerCall ==
    (tLast # NoCall /\ tLast.op \in NetworkOps) =>
        /\ Len(tLast.reqs) <= 1
        /\ (OwnRequestFailed(tLast.op, tLast.reqs) => ErrorValue(tLast.op, tLast.ret))

\* C1, amended: each network operation sends at most one request to its own
\* endpoint per call and repeats no request; get_userinfo alone may send a second
\* one, a refresh request to the token endpoint that get_token makes before the
\* userinfo request; when the operation's own request fails it returns an error
\* value (a dict with key 'error', or False) instead of raising.
C1_OneRequestPerEndpoint ==
    (tLast # NoCall /\ tLast.op \in NetworkOps) =>
        LET reqs == tLast.reqs
        IN /\ \A i, j \in 1..Len(reqs) : reqs[i].to = reqs[j].to => i = j
           /\ (tLast.op # "get_userinfo" =>
                    /\ Len(reqs) <= 1
                    /\ \A i \in 1..Len(reqs) : reqs[i].to = OwnEndpoint(tLast.op))
           /\ (tLast.op = "get_userinfo" =>
                    /\ Len(reqs) <= 2
                    /\ \A i \in 1..Len(reqs) : reqs[i].to \in {"token", "userinfo"}
                    /\ (Len(reqs) = 2 => reqs[1].to = "token"))
           /\ (OwnRequestFailed(tLast.op, reqs) => ErrorValue(tLast.op, tLast.ret))

C1_Witness ==
    /\ TCalled("get_userinfo")
    /\ Len(tLast.reqs) = 2
    /\ tLast.reqs[1] = [to |-> "token", ok |-> TRUE]
    /\ tLast.reqs[2] = [to |-> "userinfo", ok |-> FALSE]
    /\ "error" \in DOMAIN tLast.ret

\* C8 as stated: is_token_valid(t) returns True if and only if the stored token
\* set (the token file's) contains an entry t and either has no expires_at or the
\* current time is strictly less than expires_at - 60.
C8_ValidIffStoredUnexpired ==
    TCalled("is_token_valid") =>
        (tLast.ret <=>
            /\ tLast.arg \in DOMAIN StoredTokens
            /\ ("expires_at" \in DOMAIN StoredTokens => tNow < StoredTokens["expires_at"] - 60))

\* C8 where the token file is readable, and its two particular cases for the
\* token set the client judged: one saved with expires_in <= 60 is never reported
\* valid, one saved without expires_in is reported valid whenever it has entry t.
C8_WhenFileReadable ==
    TCalled("is_token_valid") =>
        LET held == tMem[tLast.c]
        IN /\ (tFile.st = "ok" =>
                    /\ held = tFile.data
                    /\ (tLast.ret <=>
                            /\ tLast.arg \in DOMAIN held
                            /\ ("expires_at" \in DOMAIN held => tNow < held["expires_at"] - 60)))
           /\ ("expires_in" \in DOMAIN held /\ held["expires_in"] <= 60 => ~tLast.ret)
           /\ ("expires_in" \notin DOMAIN held /\ tLast.arg \in DOMAIN held => tLast.ret)

\* C9 as stated: after load_tokens returns, the client's in-memory tokens equal
\* the returned value and the current content of the token file (empty when the
\* file is absent or unreadable); hence is_token_valid returns False on every
\* client once the file has been removed.
C9_LoadMirrorsFile ==
    /\ (TCalled("load_tokens") =>
            /\ tMem[tLast.c] = tLast.ret
            /\ tMem[tLast.c] = StoredTokens)
    /\ (TCalled("is_token_valid") /\ tFile.st = "absent" => ~tLast.ret)

\* C9 where the token file is readable: load_tokens then leaves the client's
\* in-memory tokens equal to the returned value and to the file's content.
C9_WhenFileReadable ==
    (TCalled("load_tokens") /\ tFile.st = "ok") =>
        /\ tMem[tLast.c] = tLast.ret
        /\ tMem[tLast.c] = tFile.data

\* C10 as stated: get_token(t) attempts a refresh at most once per call, and only
\* when is_token_valid(t) is false and a refresh_token is held; it then returns
\* the entry t of the stored token set (the token file's), or None when there is
\* no such entry.
C10_GetTokenReturnsStored ==
    TCalled("get_token") =>
        /\ tLast.refreshes <= 1
        /\ (tLast.refreshes = 1 => ~tLast.seen.valid /\ tLast.seen.held)
        /\ tLast.ret = Get(StoredTokens, tLast.arg, None)

\* C10 without its last part where the file is not readable: the refresh is tried
\* at most once and only when the token is not valid and a refresh token is held;
\* the value returned is the entry t of the client's tokens, which are the token
\* file's whenever the file is readable.
C10_WhenFileReadable ==
    TCalled("get_token") =>
        /\ tLast.refreshes <= 1
        /\ (tLast.refreshes = 1 <=> ~tLast.seen.valid /\ tLast.seen.held)
        /\ tLast.ret = Get(tMem[tLast.c], tLast.arg, None)
        /\ (tFile.st = "ok" => tLast.ret = Get(tFile.data, tLast.arg, None))

\* The token set the token file held when the last call began.
StoredBefore == IF tLast.before.file.st = "ok" THEN tLast.before.file.data ELSE <<>>

\* The server accepted the request the last call sent to `endpoint`.
Accepted(endpoint) ==
    \E i \in 1..Len(tLast.reqs) : tLast.reqs[i].to = endpoint /\ tLast.reqs[i].ok

\* C11 as stated: refresh_tokens returns True exactly when the server accepted the
\* request and the new token set was saved to the token file; with no stored
\* refresh_token it returns False without contacting the server; after every
\* successful refresh the stored token set contains a refresh_token, the server's
\* new one or else the previous one.
C11_RefreshTrueIffSaved ==
    TCalled("refresh_tokens") =>
        /\ (tLast.ret = TRUE <=>
                /\ Accepted("token")
                /\ tFile = FileOf(tMem[tLast.c])
                /\ tFile.data["access_token"] = "at" \o NatStr(tIssued))
        /\ ("refresh_token" \notin DOMAIN StoredBefore =>
                tLast.ret = FALSE /\ tLast.reqs = <<>>)
        /\ (tLast.ret = TRUE =>
                /\ "refresh_token" \in DOMAIN StoredTokens
                /\ \/ StoredTokens["refresh_token"] = "rt" \o NatStr(tIssued)
                   \/ /\ "refresh_token" \in DOMAIN StoredBefore
                      /\ StoredTokens["refresh_token"] = StoredBefore["refresh_token"])

\* C11 for what the client holds in memory: refresh_tokens returns True exactly
\* when the server accepted the request; the client's tokens then are the new token
\* set with a refresh_token; when the token file was readable and had no
\* refresh_token, False is returned and no request is sent; when the file could be
\* written, it holds the new token set.
C11_RefreshTrueIffAccepted ==
    TCalled("refresh_tokens") =>
        /\ (tLast.ret = TRUE <=> Accepted("token"))
        /\ (tLast.before.file.st = "ok" /\ "refresh_token" \notin DOMAIN StoredBefore =>
                tLast.ret = FALSE /\ tLast.reqs = <<>>)
        /\ (tLast.ret = TRUE =>
                /\ tMem[tLast.c]["access_token"] = "at" \o NatStr(tIssued)
                /\ "refresh_token" \in DOMAIN tMem[tLast.c]
                /\ (tFile.st = "ok" /\ tFile # tLast.before.file => tFile.data = tMem[tLast.c]))

\* C12 as stated: whenever OktaOAuthClient.revoke_tokens returns True, the token
\* file is absent and the client's in-memory tokens are empty, so a following
\* get_token returns None; when the server rejects the revocation it returns False
\* and the local tokens are kept.
C12_RevokeClearsLocal ==
    TCalled("revoke_tokens") =>
        /\ (tLast.ret = TRUE =>
                /\ tFile.st = "absent"
                /\ tMem[tLast.c] = <<>>
                /\ \A t \in TokenTypes, http \in TokenOutcomes(tIssued), io \in SaveOutcomes :
                        get_token(tMem[tLast.c], tFile, tNow, tIssued, t, http, io).ret = None)
        /\ (OwnRequestFailed("revoke_tokens", tLast.reqs) =>
                /\ tLast.ret = FALSE
                /\ tFile = tLast.before.file
                /\ tMem[tLast.c] # <<>>)

\* C12, the part about a rejected revocation, and the successful one where the
\* file existed and could be removed: then the file is absent and the client's
\* tokens are empty.
C12_RejectedKeepsLocal ==
    TCalled("revoke_tokens") =>
        /\ (OwnRequestFailed("revoke_tokens", tLast.reqs) =>
                /\ tLast.ret = FALSE
                /\ tFile = tLast.before.file
                /\ tMem[tLast.c] # <<>>)
        /\ (Accepted("revoke") /\ tFile.st = "absent" /\ tLast.before.file.st # "absent" =>
                tLast.ret = TRUE /\ tMem[tLast.c] = <<>>)

\* C19: a failed exchange_code_for_tokens or a failed refresh_tokens (request
\* error, or no refresh_token stored) leaves the token file unchanged: the tokens
\* stored before the call are still the ones stored after it.
C19_FailureKeepsFile ==
    /\ (TCalled("exchange_code_for_tokens") /\ "error" \in DOMAIN tLast.ret =>
            tFile = tLast.before.file)
    /\ (TCalled("refresh_tokens") /\ tLast.ret = FALSE =>
            tFile = tLast.before.file)

C19_Witness ==
    /\ TCalled("refresh_tokens")
    /\ tLast.ret = FALSE
    /\ OwnRequestFailed("refresh_tokens", tLast.reqs)
    /\ tFile.st = "ok"
    /\ "refresh_token" \in DOMAIN tFile.data
    /\ tFile = tLast.before.file

WCalled(route) == wLast # NoCall /\ wLast.route = route

\* C13 as stated: in the Okta OAuth web flow the callback calls
\* exchange_code_for_tokens only if the request's state parameter equals a state
\* value that a preceding /login stored in the same session; a callback that
\* arrives when the session holds no state (also one carrying no state parameter)
\* is rejected with 'State mismatch' and no token exchange occurs.
C13_CallbackVerifiesState ==
    WCalled("callback") =>
        /\ (wLast.response.exchanged # <<>> =>
                /\ "state" \in DOMAIN wLast.session
                /\ "state" \in DOMAIN wLast.args
                /\ wLast.args["state"] = wLast.session["state"])
        /\ ("state" \notin DOMAIN wLast.session =>
                /\ wLast.response.status = 400
                /\ StrContains(wLast.response.body, "State mismatch")
                /\ wLast.response.exchanged = <<>>)

\* C13 for requests that carry a state parameter: the exchange is then called
\* only if the session holds that very state, stored by a preceding /login; and a
\* callback whose state differs from the session's is rejected with 'State
\* mismatch' without an exchange.
C13_StateParamVerified ==
    WCalled("callback") =>
        /\ (wLast.response.exchanged # <<>> /\ "state" \in DOMAIN wLast.args =>
                /\ "state" \in DOMAIN wLast.session
                /\ wLast.args["state"] = wLast.session["state"])
        /\ (Get(wLast.args, "state", None) # Get(wLast.session, "state", None) =>
                /\ wLast.response.status = 400
                /\ StrContains(wLast.response.body, "State mismatch")
                /\ wLast.response.exchanged = <<>>)

QCalled(tool) == qLast # NoCall /\ qLast.tool = tool

\* The tool obtained its client and the service answered its first request.
QAnswered == qLast.given.create.kind = "return" /\ qLast.given.svc.kind = "return"

\* C14: QBusinessListApplicationsTool returns one entry per application of the
\* ListApplications response, in order, with 'count' equal to the number of
\* entries and 'nextToken' taken from the response; a failure of list_retrievers
\* for one application is recorded in that entry as 'retrievers_error' and does
\* not abort or drop the other applications; a failure of list_applications or of
\* client creation returns {'error', 'region'} and never raises.
C14_ListApplicationsEntries ==
    QCalled("QBusinessListApplicationsTool") =>
        LET out == qLast.out
            response == qLast.given.svc.value
            apps == Get(response, "applications", <<>>)
        IN /\ (QAnswered =>
                /\ DOMAIN out = {"region", "count", "applications", "nextToken"}
                /\ Len(out["applications"]) = Len(apps)
                /\ out["count"] = Len(apps)
                /\ out["nextToken"] = Get(response, "nextToken", None)
                /\ \A i \in 1..Len(apps) :
                    LET entry == out["applications"][i]
                        rr == qLast.given.retr[apps[i]["applicationId"]]
                    IN /\ entry["applicationId"] = apps[i]["applicationId"]
                       /\ entry["name"] = Get(apps[i], "name", None)
                       /\ (rr.kind = "raise" =>
                                /\ "retrievers_error" \in DOMAIN entry
                                /\ entry["retrievers_error"] = rr.msg
                                /\ "retrievers" \notin DOMAIN entry)
                       /\ (rr.kind = "return" =>
                                /\ "retrievers_error" \notin DOMAIN entry
                                /\ Len(entry["retrievers"]) = Len(Get(rr.value, "retrievers", <<>>))))
           /\ (~QAnswered =>
                /\ DOMAIN out = {"error", "region"}
                /\ out["error"] = (IF qLast.given.create.kind = "raise"
                                   THEN qLast.given.create.msg ELSE qLast.given.svc.msg))

C14_Witness ==
    /\ QCalled("QBusinessListApplicationsTool")
    /\ QAnswered
    /\ qLast.out["count"] = 2
    /\ qLast.out["applications"][1]["applicationId"] = "app-2"
    /\ qLast.out["applications"][2]["applicationId"] = "app-1"
    /\ "retrievers_error" \in DOMAIN qLast.out["applications"][1]
    /\ "retrievers" \in DOMAIN qLast.out["applications"][2]
    /\ Len(qLast.out["applications"][2]["retrievers"]) = 1
    /\ qLast.out["nextToken"] = "next-1"

\* C15: QBusinessSearchRelevantContentTool sends maxResults and nextToken to
\* search_relevant_content if and only if they were supplied (not None), returns
\* one result per relevantContent item in order, and on any failure, including
\* failure to obtain identity-aware credentials before any Q Business call is
\* made, returns {'error', 'query', 'applicationId', 'retrieverId'} without
\* raising and without calling search_relevant_content more than once.
C15_SearchRelevantContent ==
    QCalled("QBusinessSearchRelevantContentTool") =>
        LET out == qLast.out
            args == qLast.args
        IN /\ Len(qLast.calls) <= 1
           /\ (qLast.given.create.kind = "raise" => qLast.calls = <<>>)
           /\ \A i \in 1..Len(qLast.calls) :
                /\ qLast.calls[i].api = "search_relevant_content"
                /\ \A k \in {"maxResults", "nextToken"} :
                    /\ (k \in DOMAIN qLast.calls[i].kwargs <=> k \in DOMAIN args)
                    /\ (k \in DOMAIN args => qLast.calls[i].kwargs[k] = args[k])
           /\ (QAnswered =>
                LET items == Get(qLast.given.svc.value, "relevantContent", <<>>)
                IN /\ "error" \notin DOMAIN out
                   /\ Len(out["results"]) = Len(items)
                   /\ \A i \in 1..Len(items) :
                        /\ out["results"][i]["content"] = items[i]["content"]
                        /\ out["results"][i]["documentId"] = items[i]["documentId"])
           /\ (~QAnswered =>
                /\ DOMAIN out = {"error", "query", "applicationId", "retrieverId"}
                /\ out["query"] = args["queryText"]
                /\ out["applicationId"] = args["applicationId"]
                /\ out["retrieverId"] = args["retrieverId"])

C15_Witness ==
    /\ QCalled("QBusinessSearchRelevantContentTool")
    /\ QAnswered
    /\ Len(qLast.calls) = 1
    /\ "maxResults" \in DOMAIN qLast.args
    /\ qLast.calls[1].kwargs["maxResults"] = 0
    /\ "nextToken" \notin DOMAIN qLast.calls[1].kwargs
    /\ Len(qLast.out["results"]) = 2
    /\ qLast.out["results"][1]["documentId"] = "doc-2"
    /\ qLast.out["results"][2]["documentId"] = "doc-1"

\* The region the claim expects the client of the last tool call to use.
ExpectedRegion ==
    IF Truthy(Get(qLast.args, "region", None)) THEN qLast.args["region"]
    ELSE Get(qEnv, "AWS_REGION", "us-east-1")

\* C16 as stated: for every tool of the Amazon Q MCP server, when the region
\* parameter is supplied the Q Business client used for the call is created for
\* that region; when it is omitted the client uses AWS_REGION, or us-east-1 if
\* that is unset.
C16_ClientRegion ==
    qLast # NoCall =>
        \A i \in 1..Len(qLast.clients) : qLast.clients[i].region_name = ExpectedRegion

\* C16 for QBusinessListApplicationsTool alone, whose client comes from
\* get_qbusiness_client: its region is the region argument, else AWS_REGION, else
\* us-east-1; the identity-aware client of the other tools is always created for
\* us-east-1.
C16_ListClientRegion ==
    /\ (QCalled("QBusinessListApplicationsTool") =>
            \A i \in 1..Len(qLast.clients) : qLast.clients[i].region_name = ExpectedRegion)
    /\ (qLast # NoCall /\ qLast.tool # "QBusinessListApplicationsTool" =>
            \A i \in 1..Len(qLast.clients) : qLast.clients[i].region_name = "us-east-1")

\* C17: QBusinessChatSyncTool forwards conversationId and attributionToken to
\* chat_sync if and only if they were supplied, so a caller that passes back the
\* conversationId returned by one call continues the same conversation in the
\* next; the result contains 'pluginResult' only when the response has one and
\* 'citations' only when the response has a non-empty list; on any failure it
\* returns a dict with 'error' and the userMessage without raising.
C17_ChatSyncForwards ==
    QCalled("QBusinessChatSyncTool") =>
        LET out == qLast.out
            args == qLast.args
        IN /\ Len(qLast.calls) <= 1
           /\ \A i \in 1..Len(qLast.calls) :
                \A k \in {"conversationId", "attributionToken"} :
                    /\ (k \in DOMAIN qLast.calls[i].kwargs <=> k \in DOMAIN args)
                    /\ (k \in DOMAIN args => qLast.calls[i].kwargs[k] = args[k])
           /\ out["userMessage"] = args["userMessage"]
           /\ ("error" \notin DOMAIN out =>
                /\ QAnswered
                /\ ("conversationId" \in DOMAIN args =>
                        /\ out["conversationId"] = args["conversationId"]
                        /\ DOMAIN qConvs = DOMAIN qLast.convs
                        /\ qConvs[args["conversationId"]] = args["userMessage"]
                        /\ \A c \in DOMAIN qConvs :
                                c # args["conversationId"] => qConvs[c] = qLast.convs[c])
                /\ ("pluginResult" \in DOMAIN out <=> "pluginResult" \in DOMAIN qLast.given.svc.value)
                /\ ("citations" \in DOMAIN out <=>
                        /\ "citations" \in DOMAIN qLast.given.svc.value
                        /\ qLast.given.svc.value["citations"] # <<>>))
           /\ (~QAnswered => "error" \in DOMAIN out)
           /\ ("error" \in DOMAIN out => qConvs = qLast.convs)

C17_Witness ==
    /\ QCalled("QBusinessChatSyncTool")
    /\ "error" \notin DOMAIN qLast.out
    /\ DOMAIN qLast.convs = {"conv1", "conv2"}
    /\ "conversationId" \in DOMAIN qLast.args
    /\ qLast.args["conversationId"] = "conv1"
    /\ qLast.out["conversationId"] = "conv1"
    /\ qLast.convs["conv1"] = "hello"
    /\ qConvs["conv1"] = "and then?"
    /\ "attributionToken" \notin DOMAIN qLast.calls[1].kwargs
    /\ "pluginResult" \in DOMAIN qLast.out
    /\ "citations" \in DOMAIN qLast.given.svc.value
    /\ "citations" \notin DOMAIN qLast.out

ACalled(ops) == aLast # NoCall /\ aLast.op \in ops

\* What make_api_request returns for a request that was sent: the response JSON
\* on success, {} for an empty body, a dict with key 'error' on failure.
ApiValueAsSpecified ==
    /\ aLast.out.kind = "return"
    /\ (aLast.http.kind = "raise" =>
            aLast.out.value.t = "dict" /\ "error" \in DOMAIN aLast.out.value.d)
    /\ (aLast.http.kind = "return" /\ aLast.http.value.content =>
            aLast.out.value = aLast.http.value.json)
    /\ (aLast.http.kind = "return" /\ ~aLast.http.value.content =>
            aLast.out.value = PyDict(<<>>))

ListsAndBooleans ==
    /\ (ACalled({"list_users", "list_applications", "list_application_users"}) =>
            aLast.out.kind = "return" /\ aLast.out.value.t = "list")
    /\ (ACalled({"deactivate_user", "delete_user"}) =>
            aLast.out.kind = "return" /\ aLast.out.value.t = "bool")

CallOf(c, i, j) ==
    /\ i < j
    /\ rLog[i].c = c /\ rLog[i].ev = "load"
    /\ rLog[j].c = c /\ rLog[j].ev = "save"
    /\ \A k \in (i + 1)..(j - 1) : rLog[k].c = c => rLog[k].ev = "post"

\* The call of c that just saved loaded first and saved last: another client
\* loaded and saved in between.
LoadedFirstSavedLast(c, i) ==
    /\ CallOf(c, i, Len(rLog))
    /\ \E k, l \in (i + 1)..(Len(rLog) - 1) :
        /\ rLog[k].c # c
        /\ CallOf(rLog[k].c, k, l)

\* C20: token file operations are not mutually exclusive: when two clients
\* sharing tokens.json interleave refresh_tokens (each a load, a server call, then
\* a save), the call that loaded first and saved last leaves its token set in the
\* file, overwriting the tokens the other client saved in between (lost update);
\* nothing makes a client wait for, or notice, the other's save.
C20_LastSaveWins ==
    \A c \in Clients, i \in 1..Len(rLog) :
        LoadedFirstSavedLast(c, i) =>
            /\ tFile = FileOf(rLog[Len(rLog)].tokens)
            /\ tMem[c] = rLog[Len(rLog)].tokens
            /\ \A l \in (i + 1)..(Len(rLog) - 1) :
                    rLog[l].ev = "save" /\ rLog[l].c # c => tFile.data # rLog[l].tokens

\* The state C20 says is reachable: c1 loaded first and saved last; the file
\* holds c1's token set (issued second), not the newer one (issued third) that c2
\* saved in between; and c2's request carried the refresh_token rt0 that the
\* server had already replaced by rt1 in its answer to c1.
C20_Witness ==
    /\ Len(rLog) = 6
    /\ LoadedFirstSavedLast("c1", 1)
    /\ rLog[2] = Event("c1", "post", "rt0", ("access_token" :> "at1") @@ ("refresh_token" :> "rt1"))
    /\ rLog[3].c = "c2" /\ rLog[3].ev = "load"
    /\ rLog[4].c = "c2" /\ rLog[4].ev = "post" /\ rLog[4].sent = "rt0"
    /\ rLog[4].tokens["access_token"] = "at2"
    /\ rLog[5].c = "c2" /\ rLog[5].ev = "save"
    /\ tFile.data["access_token"] = "at1"
    /\ tFile.data["refresh_token"] = "rt1"
    /\ tMem["c2"]["access_token"] = "at2"
    /\ tMem["c2"]["refresh_token"] = "rt2"

\* The form data exchange_code_for_tokens posts to the token endpoint: the
\* code, and the verifier when one is given (`if code_verifier:`).
ExchangeData(call) ==
    ("grant_type" :> "authorization_code") @@ ("code" :> call.code)
    @@ (IF Truthy(call.code_verifier) THEN "code_verifier" :> call.code_verifier ELSE <<>>)

\* The token request carries a verifier, an authorization request with this
\* state was sent, and the challenge sent with that state is the verifier's.
VerifierOfAuthorization(sent, state, data) ==
    /\ "code_verifier" \in DOMAIN data
    /\ \E a \in sent : a["state"] = state
    /\ \A a \in sent :
        a["state"] = state =>
            /\ "code_challenge" \in DOMAIN a
            /\ a["code_challenge"] = S256(data["code_verifier"])
            /\ a["code_challenge_method"] = "S256"

\* The Okta part of C21: the exchange a callback makes.
OktaVerifierMatches ==
    WCalled("callback") =>
        \A i \in 1..Len(wLast.response.exchanged) :
            VerifierOfAuthorization(wSent, Get(wLast.args, "state", None),
                                    ExchangeData(wLast.response.exchanged[i]))

\* The Salesforce part of C21: every token request sent so far.
SalesforceVerifierMatches ==
    \A i \in 1..Len(sPosts) : VerifierOfAuthorization(sSent, sPosts[i].state, sPosts[i].data)

\* C21 as stated: whenever a code exchange is sent to the token endpoint (Okta
\* Flask flow and Salesforce flow), the code_verifier sent is the one whose
\* SHA-256/base64url challenge was sent in the authorization request that
\* carried the same state, also when /login is invoked several times before a
\* callback arrives.
C21_VerifierMatchesChallenge == OktaVerifierMatches /\ SalesforceVerifierMatches

\* C21 in the Okta flow for callbacks that carry a state parameter: the
\* verifier sent is the one of the authorization request with that state.
C21_OktaStateParamVerifierMatches ==
    (WCalled("callback") /\ "state" \in DOMAIN wLast.args) => OktaVerifierMatches

\* C21 in the Salesforce flow: every token request carries the verifier whose
\* challenge went out with the callback's state.
C21_SalesforceVerifierMatches == SalesforceVerifierMatches

\* After two logins, the callback of the second one has exchanged its code.
C21_OktaWitness ==
    /\ WCalled("callback")
    /\ wLast.response.exchanged # <<>>
    /\ Get(wLast.args, "state", None) = "state2"
    /\ Cardinality(wSent) = 2

\* The callback of the first Salesforce login arrives after the second login.
C21_SalesforceWitness ==
    /\ sRand = 2
    /\ \E i \in 1..Len(sPosts) : sPosts[i].state = "sfstate1"

SfCalled(route) == sLast # NoCall /\ sLast.route = route

\* The callback's state parameter keys a verifier in pkce_verifiers, put there
\* by an earlier /login (whose authorization request carried that state).
KeysVerifier(args, pkce_verifiers) ==
    /\ "state" \in DOMAIN args
    /\ args["state"] \in DOMAIN pkce_verifiers
    /\ \E a \in sSent : a["state"] = args["state"]

\* The token request of the last callback was answered with 200.
SfExchanged == sLast.posts # <<>> /\ sLast.posts[1].status_code = 200

\* A token request only for a stored verifier; the verifier is gone after a
\* 200; a request not answered with 200 changes neither dict; and no state has
\* two requests answered with 200.
ExchangeOncePerState ==
    /\ SfCalled("callback") =>
        /\ (sLast.posts # <<>> => KeysVerifier(sLast.args, sLast.before.pkce_verifiers))
        /\ (~KeysVerifier(sLast.args, sLast.before.pkce_verifiers) => sLast.posts = <<>>)
        /\ (SfExchanged =>
                /\ sLast.args["state"] \notin DOMAIN sVerifiers
                /\ sTokens # sLast.before.user_tokens)
        /\ (sLast.posts # <<>> /\ ~SfExchanged =>
                /\ sTokens = sLast.before.user_tokens
                /\ sVerifiers = sLast.before.pkce_verifiers)
    /\ \A i, j \in 1..Len(sPosts) :
        (i # j /\ sPosts[i].status_code = 200 /\ sPosts[j].status_code = 200)
            => sPosts[i].state # sPosts[j].state

====
